---------------------------- MODULE Spec2Model ----------------------------
(***************************************************************************)
(* PyBeeb: the Unicorn-like facade (pybeeb/PyBeebicorn.py), the 6502       *)
(* dispatcher (pybeeb/CPU/Dispatch.py), the memory (pybeeb/CPU/Memory.py)  *)
(* and the host trap hook of PyBeebU.py, as a state machine.               *)
(*                                                                         *)
(* Guest RAM is a bytearray of 64K zero bytes; it is kept here as a sparse *)
(* function (address -> byte) whose missing addresses read as 0.           *)
(***************************************************************************)
EXTENDS Integers, Sequences, FiniteSets, TLC

\* ------------------------------------------------------------------ bounds
MaxHooks == 2
MaxTicks == 3

\* ------------------------------------------------------- program constants
PB_HOOK_CODE == 4
PB_HOOK_MEM_READ == 1024
PB_HOOK_MEM_WRITE == 2048
ErrorBlock == 256
StackPage == 256
BrkVector == 65534

\* The addresses the model's inputs are drawn from: a small RAM program, one
\* trap entry point in the ROM (OSWRCH.code) and the error block.
ProgBase == 4096
TrapCode == 57508

VARIABLES
    reg,                \* RegisterBank: pc, sp, a, x, y, nextPC and the flags
    memory,             \* Memory.memory, sparse (absent = 0)
    maps,               \* Memory.maps: sequence of [base, end, dev]
    devs,               \* the mapped devices' stores: dev -> sparse offsets
    hook_exec,          \* PbDispatcher.hook_exec
    hook_read,          \* PbMemory.hook_read
    hook_write,         \* PbMemory.hook_write
    hook_simple_read,   \* PbMemory.hook_simple_read: address -> hook
    hook_simple_write,  \* PbMemory.hook_simple_write
    nextId,             \* identity of the next PbHook object created
    executing,          \* Pb.executing
    at,                 \* position of the facade: idle, or a place in emu_start
    run,                \* emu_start's arguments: begin, until, count
    insts,              \* emu_start's local insts
    tk,                 \* the tick's locals: pc, length, opcode, hook index
    exc,                \* the exception propagating out of emu_start, or "none"
    log,                \* what the current tick did so far, in order
    obs                 \* observations kept for the properties

vars == <<reg, memory, maps, devs, hook_exec, hook_read, hook_write,
          hook_simple_read, hook_simple_write, nextId, executing, at, run,
          insts, tk, exc, log, obs>>

hookVars == <<hook_exec, hook_read, hook_write, hook_simple_read,
              hook_simple_write, nextId>>

\* ----------------------------------------------------------------- helpers
Empty == << >>

BitAnd(x, bit) == (x \div bit) % 2 = 1

Remove(seq, x) ==
    LET idx == {i \in 1..Len(seq) : seq[i] = x}
        first == CHOOSE i \in idx : \A j \in idx : i <= j
    IN  IF idx = {} THEN seq
        ELSE SubSeq(seq, 1, first - 1) \o SubSeq(seq, first + 1, Len(seq))

Without(f, k) == [x \in (DOMAIN f) \ {k} |-> f[x]]

\* --------------------------------------------------------------- registers
RegisterBank ==
    [pc |-> 0, sp |-> 255, a |-> 0, x |-> 0, y |-> 0, nextPC |-> 0,
     carry |-> FALSE, zero |-> FALSE, int |-> FALSE, dec |-> FALSE,
     brk |-> FALSE, overflow |-> FALSE, negative |-> FALSE]

ps(r) ==
    (IF r.carry THEN 1 ELSE 0) + (IF r.zero THEN 2 ELSE 0)
    + (IF r.int THEN 4 ELSE 0) + (IF r.dec THEN 8 ELSE 0)
    + (IF r.brk THEN 16 ELSE 0) + (IF r.overflow THEN 64 ELSE 0)
    + (IF r.negative THEN 128 ELSE 0)

\* ------------------------------------------------------------------ memory
\* Memory.Map.isInMap: both ends inclusive.
isInMap(m, address) == address >= m.base /\ address <= m.end

\* getMapFor returning the first registered map that covers the address.
getMapForFirst(address) ==
    LET covering == {i \in 1..Len(maps) : isInMap(maps[i], address)}
    IN  IF covering = {} THEN 0
        ELSE CHOOSE i \in covering : \A j \in covering : i <= j

\* Memory.getMapFor: the last registered map that covers the address, or 0.
getMapFor(address) ==
    LET covering == {i \in 1..Len(maps) : isInMap(maps[i], address)}
    IN  IF covering = {} THEN 0
        ELSE CHOOSE i \in covering : \A j \in covering : j <= i

\* A store is the part of the memory a byte access reads or changes.
Store == [memory |-> memory, devs |-> devs]

RamRead(st, address) ==
    IF address \in DOMAIN st.memory THEN st.memory[address] ELSE 0

\* A mapped device's readByte(offset): what was written there, else a value
\* that tells the device and the offset apart from RAM (offset + 1 for
\* device 1).
DevRead(st, d, offset) ==
    IF offset \in DOMAIN st.devs[d] THEN st.devs[d][offset]
    ELSE (offset + d) % 256

\* One thing an operation did: a hook callback called, RAM or a device
\* accessed, a stage of the instruction. seen is the value involved.
Event(ev, a, id, seen) == [ev |-> ev, a |-> a, id |-> id, seen |-> seen]

\* Memory.readByte once the map m (0: none) is known.
ReadMapped(st, address, m) ==
    IF m # 0
    THEN [exc |-> "none",
          val |-> DevRead(st, maps[m].dev, address - maps[m].base),
          ev |-> <<Event("devread", address - maps[m].base, maps[m].dev, 0)>>]
    ELSE [exc |-> "none", val |-> RamRead(st, address),
          ev |-> <<Event("read", address, 0, 0)>>]

\* Memory.readByte: [exc, val, ev].
Memory_readByte(st, address) ==
    IF address < 0 \/ address > 65535
    THEN [exc |-> "InvalidAddress", val |-> 0, ev |-> Empty]
    ELSE ReadMapped(st, address, getMapFor(address))

\* Memory.writeByte once the map m (0: none) is known.
WriteMapped(st, address, value, m) ==
    IF m # 0
    THEN [exc |-> "none",
          st |-> [st EXCEPT !.devs[maps[m].dev] =
                     (address - maps[m].base :> value) @@ @],
          ev |-> <<Event("devwrite", address - maps[m].base, maps[m].dev,
                         value)>>]
    ELSE [exc |-> "none",
          st |-> [st EXCEPT !.memory = (address :> value) @@ @],
          ev |-> <<Event("write", address, 0, value)>>]

\* Memory.writeByte: [exc, st, ev].
Memory_writeByte(st, address, value) ==
    IF address < 0 \/ address > 65535
    THEN [exc |-> "InvalidAddress", st |-> st, ev |-> Empty]
    ELSE IF value < 0 \/ value > 255
    THEN [exc |-> "ValueOutOfRange", st |-> st, ev |-> Empty]
    ELSE WriteMapped(st, address, value, getMapFor(address))

\* Memory.getNextMap: the base of the map that starts first after address,
\* or 0x10000 when there is none (readBytes / writeBytes use only its base).
getNextMap(address) ==
    LET later == {i \in 1..Len(maps) : maps[i].base > address}
    IN  IF later = {} THEN 65536
        ELSE maps[CHOOSE i \in later :
                     \A j \in later : maps[i].base <= maps[j].base].base

Min(a, b) == IF a < b THEN a ELSE b
Max(a, b) == IF a > b THEN a ELSE b

\* One iteration of the loop of Memory.readBytes / writeBytes handles the
\* bytes from address up to, not including, this end.
ChunkEndIn(address, size, m) ==
    IF m # 0 THEN Min(address + size, maps[m].end)
    ELSE Min(address + size, getNextMap(address))

\* The store after one iteration of the loop of Memory.writeBytes.
WriteChunk(st, address, value, m, end) ==
    IF m # 0
    THEN [st EXCEPT !.devs[maps[m].dev] =
            [o \in (address - maps[m].base)..(end - 1 - maps[m].base)
               |-> value[o + maps[m].base - address + 1]] @@ @]
    ELSE [st EXCEPT !.memory =
            [x \in address..(end - 1) |-> value[x - address + 1]] @@ @]

\* The loop of Memory.writeBytes. An iteration that consumes no byte leaves
\* address, size and value as they were: the loop never ends ("hang").
RECURSIVE writeBytesLoop(_, _, _)
writeBytesStep(st, address, value, m, end) ==
    IF end - address <= 0 THEN [exc |-> "hang", st |-> st]
    ELSE writeBytesLoop(WriteChunk(st, address, value, m, end), end,
                        SubSeq(value, end - address + 1, Len(value)))

writeBytesLoop(st, address, value) ==
    IF Len(value) = 0 THEN [exc |-> "none", st |-> st]
    ELSE writeBytesStep(st, address, value, getMapFor(address),
                        ChunkEndIn(address, Len(value), getMapFor(address)))

\* Memory.writeBytes: [exc, st].
Memory_writeBytes(st, address, value) ==
    IF address < 0 THEN [exc |-> "InvalidAddress", st |-> st]
    ELSE IF address + Len(value) > 65535
    THEN [exc |-> "InvalidAddress", st |-> st]
    ELSE writeBytesLoop(st, address, value)

\* The bytes one iteration of the loop of Memory.readBytes appends.
ReadChunk(st, address, m, end) ==
    IF m # 0
    THEN [k \in 1..(end - address) |->
             DevRead(st, maps[m].dev, address - maps[m].base + k - 1)]
    ELSE [k \in 1..(end - address) |-> RamRead(st, address + k - 1)]

\* The loop of Memory.readBytes. An iteration that reads no byte leaves
\* address and size as they were: the loop never ends ("hang").
RECURSIVE readBytesLoop(_, _, _, _)
readBytesStep(st, address, size, data, m, end) ==
    IF end - address <= 0 THEN [exc |-> "hang", data |-> data]
    ELSE readBytesLoop(st, end, size - (end - address),
                       data \o ReadChunk(st, address, m, end))

readBytesLoop(st, address, size, data) ==
    IF size = 0 THEN [exc |-> "none", data |-> data]
    ELSE readBytesStep(st, address, size, data, getMapFor(address),
                       ChunkEndIn(address, size, getMapFor(address)))

\* Memory.readBytes: [exc, data].
Memory_readBytes(st, address, size) ==
    IF address < 0 THEN [exc |-> "InvalidAddress", data |-> Empty]
    ELSE IF address + size > 65535
    THEN [exc |-> "InvalidAddress", data |-> Empty]
    ELSE readBytesLoop(st, address, size, Empty)

\* ------------------------------------------------------------------- hooks
\* PbHook.__init__: the hook object; cb names the callback registered.
PbHook(id, htype, cb, begin, end) ==
    [id |-> id, htype |-> htype, cb |-> cb, address |-> begin, end |-> end,
     size |-> end - begin]

\* PbHook.__contains__ for an address.
InHook(hook, value) == value >= hook.address /\ value < hook.end

\* PbDispatcher.hook_add / hook_del.
PbDispatcher_hook_add(list, hook) == Append(list, hook)
PbDispatcher_hook_del(list, hook) == Remove(list, hook)

\* MemHookAdd keeping the single-address map when a hook that is not simple
\* is added.
MemHookAddKeepingMap(list, simple, hook) ==
    [list |-> Append(list, hook),
     simple |-> IF list = Empty \/ simple # Empty
                THEN IF hook.size = 1 /\ hook.address \notin DOMAIN simple
                     THEN (hook.address :> hook) @@ simple
                     ELSE simple
                ELSE simple]

\* PbMemory.hook_add for one kind: the list and the single-address map.
MemHookAdd(list, simple, hook) ==
    [list |-> Append(list, hook),
     simple |-> IF list = Empty \/ simple # Empty
                THEN IF hook.size = 1 /\ hook.address \notin DOMAIN simple
                     THEN (hook.address :> hook) @@ simple
                     ELSE Empty
                ELSE simple]

\* MemHookDel leaving the hook in the single-address map.
MemHookDelFromListOnly(list, simple, hook) ==
    IF \E i \in 1..Len(list) : list[i] = hook
    THEN [list |-> Remove(list, hook), simple |-> simple]
    ELSE [list |-> list, simple |-> simple]

\* PbMemory.hook_del for one kind.
MemHookDel(list, simple, hook) ==
    IF \E i \in 1..Len(list) : list[i] = hook
    THEN [list |-> Remove(list, hook),
          simple |-> IF hook.address \in DOMAIN simple
                     THEN Without(simple, hook.address) ELSE simple]
    ELSE [list |-> list, simple |-> simple]

\* The hooks PbMemory.readByte / writeByte call for a byte access, in order.
HooksCalled(list, simple, address) ==
    IF list = Empty THEN Empty
    ELSE IF simple # Empty
    THEN IF address \in DOMAIN simple THEN <<simple[address]>> ELSE Empty
    ELSE SelectSeq(list, LAMBDA h : InHook(h, address))

\* The value a callback sees at the address when it is called.
Seen(st, address) ==
    IF address < 0 \/ address > 65535 THEN 0
    ELSE Memory_readByte(st, address).val

\* The callbacks of the hooks called for a byte access, each seeing the
\* store as it is when it is called.
HookEvents(kind, called, address, seen) ==
    [i \in 1..Len(called) |-> Event(kind, address, called[i].id, seen)]

\* PbMemory.readByte: the hooks, then Memory.readByte. [exc, val, ev].
ReadAfterHooks(evs, r) == [exc |-> r.exc, val |-> r.val, ev |-> evs \o r.ev]

PbMemory_readByte(st, address) ==
    ReadAfterHooks(
        HookEvents("rhook", HooksCalled(hook_read, hook_simple_read, address),
                   address, Seen(st, address)),
        Memory_readByte(st, address))

\* PbMemory.writeByte: the hooks, then Memory.writeByte. [exc, st, ev].
WriteAfterHooks(evs, r) == [exc |-> r.exc, st |-> r.st, ev |-> evs \o r.ev]

\* PbMemory.writeByte with the write made before the hooks are called.
HooksAfterWrite(r, address) ==
    [exc |-> r.exc, st |-> r.st,
     ev |-> r.ev \o HookEvents("whook",
                               HooksCalled(hook_write, hook_simple_write,
                                           address),
                               address, Seen(r.st, address))]

PbMemory_writeByteThenHooks(st, address, value) ==
    HooksAfterWrite(Memory_writeByte(st, address, value), address)

PbMemory_writeByte(st, address, value) ==
    WriteAfterHooks(
        HookEvents("whook",
                   HooksCalled(hook_write, hook_simple_write, address),
                   address, Seen(st, address)),
        Memory_writeByte(st, address, value))

\* PbHook.__contains__ for the pair (address, size) that PbMemory.readBytes
\* and writeBytes test, on Python 2: the pair is compared with the hook's
\* integers, and a pair orders after every integer, so "pair >= address and
\* pair < end" is false.
PairInHook(h, address, size) == FALSE

\* The sub-range PbMemory.readBytes / writeBytes report to a hook, and the
\* callbacks of the hooks whose range holds the pair (seen: the length).
BoundAddress(h, address, size) ==
    Max(address, Min(h.address, address + size))

BoundEnd(h, address, size) == Min(address + size, Max(h.end, address + size))

BulkEvent(kind, h, address, size) ==
    Event(kind, BoundAddress(h, address, size), h.id,
          BoundEnd(h, address, size) - BoundAddress(h, address, size))

BulkCalled(list, address, size) ==
    SelectSeq(list, LAMBDA h : PairInHook(h, address, size))

BulkEvents(kind, called, address, size) ==
    [i \in 1..Len(called) |-> BulkEvent(kind, called[i], address, size)]

BulkHookEvents(kind, list, address, size) ==
    BulkEvents(kind, BulkCalled(list, address, size), address, size)

\* PbMemory.writeBytes: the hooks whose range holds the pair, then
\* Memory.writeBytes. [exc, st, ev].
WritesAfterHooks(evs, r, address, size) ==
    [exc |-> r.exc, st |-> r.st,
     ev |-> evs \o (IF r.exc = "none"
                    THEN <<Event("writes", address, 0, size)>> ELSE Empty)]

PbMemory_writeBytes(st, address, value) ==
    WritesAfterHooks(
        BulkHookEvents("whook", hook_write, address, Len(value)),
        Memory_writeBytes(st, address, value), address, Len(value))

\* PbMemory.readBytes: the hooks whose range holds the pair, then
\* Memory.readBytes. [exc, data, ev].
ReadsAfterHooks(evs, r) == [exc |-> r.exc, data |-> r.data, ev |-> evs]

PbMemory_readBytes(st, address, size) ==
    ReadsAfterHooks(BulkHookEvents("rhook", hook_read, address, size),
                    Memory_readBytes(st, address, size))

\* The package runs on Python 2 and on Python 3. On Python 3 the comparison
\* of the pair with the hook's integers raises TypeError at the first hook
\* of the list.
Pythons == {2, 3}

PairTestRaises(py, list) == py # 2 /\ list # Empty

\* Pb.mem_read / Pb.mem_write on the interpreter py.
mem_read(py, st, address, size) ==
    IF PairTestRaises(py, hook_read)
    THEN [exc |-> "TypeError", data |-> Empty, ev |-> Empty]
    ELSE PbMemory_readBytes(st, address, size)

mem_write(py, st, address, data) ==
    IF PairTestRaises(py, hook_write)
    THEN [exc |-> "TypeError", st |-> st, ev |-> Empty]
    ELSE PbMemory_writeBytes(st, address, data)

\* -------------------------------------------------- sequential composition
\* A context threads the registers, the store, the events and a pending
\* exception through the calls one step of the program makes.
Ctx(r, st, ex) ==
    [exc |-> "none", reg |-> r, st |-> st, executing |-> ex, ev |-> Empty,
     val |-> 0]

Raise(c, x) == [c EXCEPT !.exc = x]

ReadInto(c, r) == [c EXCEPT !.exc = r.exc, !.val = r.val, !.ev = @ \o r.ev]

CRead(c, address) ==
    IF c.exc # "none" THEN c
    ELSE ReadInto(c, PbMemory_readByte(c.st, address))

WriteInto(c, r) == [c EXCEPT !.exc = r.exc, !.st = r.st, !.ev = @ \o r.ev]

CWrite(c, address, value) ==
    IF c.exc # "none" THEN c
    ELSE WriteInto(c, PbMemory_writeByte(c.st, address, value))

CWriteBytes(c, address, value) ==
    IF c.exc # "none" THEN c
    ELSE WriteInto(c, PbMemory_writeBytes(c.st, address, value))

\* Memory.readWord, little-endian: the low byte is read first.
WordOf(lo, hi) == [hi EXCEPT !.val = lo + hi.val * 256]
ReadHigh(c, address) == WordOf(c.val, CRead(c, address))
CReadWord(c, address) == ReadHigh(CRead(c, address), address + 1)

\* ExecutionDispatcher.pushByte: write at 0x100 + SP, then decrement SP.
Pushed(w) ==
    IF w.exc # "none" THEN w
    ELSE IF w.reg.sp - 1 < 0
    THEN [w EXCEPT !.reg.sp = @ - 1, !.exc = "StackOverflow"]
    ELSE [w EXCEPT !.reg.sp = @ - 1]

pushByte(c, value) == Pushed(CWrite(c, c.reg.sp + StackPage, value))

\* ExecutionDispatcher.pullByte: increment SP, then read at 0x100 + SP.
pullByte(c) ==
    IF c.exc # "none" THEN c
    ELSE IF c.reg.sp + 1 > 255
    THEN [c EXCEPT !.reg.sp = @ + 1, !.exc = "StackUnderflow"]
    ELSE CRead([c EXCEPT !.reg.sp = @ + 1], c.reg.sp + 1 + StackPage)

\* ExecutionDispatcher.pushWord: high byte, then low byte.
pushWord(c, value) == pushByte(pushByte(c, value \div 256), value % 256)

\* Dispatcher.pullWord -> ExecutionDispatcher.pullWord: low byte, then high.
PullHigh(c) == WordOf(c.val, pullByte(c))
pullWord(c) == PullHigh(pullByte(c))

\* ----------------------------------------------------------------- decoder
\* The rows of insts.csv the guest programs of this model use.
OpBRK == 0
OpJMP == 76
OpRTS == 96
OpSTA == 133
OpLDA == 169
OpNOP == 234

instruction(opcode) ==
    CASE opcode = OpBRK -> "BRK"
      [] opcode = OpJMP -> "JMP"
      [] opcode = OpRTS -> "RTS"
      [] opcode = OpSTA -> "STA"
      [] opcode = OpLDA -> "LDA"
      [] opcode = OpNOP -> "NOP"
      [] OTHER -> "UNDEFINED"

instructionLength(opcode) ==
    CASE opcode = OpJMP -> 3
      [] opcode = OpSTA -> 2
      [] opcode = OpLDA -> 2
      [] OTHER -> 1

writeback(opcode) ==
    CASE opcode = OpBRK -> "PC"
      [] opcode = OpJMP -> "PC"
      [] opcode = OpRTS -> "PC"
      [] opcode = OpSTA -> "M"
      [] opcode = OpLDA -> "A"
      [] OTHER -> "NW"

\* ------------------------------------------------------ Dispatcher.execute
\* The context after dataDecode, addressDecode and the mnemonic's handler,
\* with the handler's result in val (some: it returned a value) and the
\* effective address in adr.
Handled(x, pc, opcode, some, result, adr) ==
    [exc |-> x.exc, reg |-> x.reg, st |-> x.st, executing |-> x.executing,
     ev |-> IF x.exc = "none"
            THEN x.ev \o <<Event("handler", pc, 0, opcode)>> ELSE x.ev,
     val |-> result, some |-> some, adr |-> adr]

\* LDA #imm: the operand is the byte after the opcode; N and Z follow it.
LDA(d, pc) ==
    Handled([d EXCEPT !.reg.zero = (d.val = 0),
                      !.reg.negative = (d.val >= 128)],
            pc, OpLDA, TRUE, d.val, pc + 1)

\* STA zp: the address is the byte after the opcode; the result is A.
STA(zp, pc) == Handled(CRead(zp, zp.val), pc, OpSTA, TRUE, zp.reg.a, zp.val)

\* JMP abs: the address is the word after the opcode.
JMP(w, pc) == Handled(CRead(w, w.val), pc, OpJMP, TRUE, w.val, w.val)

\* RTS: pull the return address; the result is that address + 1.
RTS(w, pc) == Handled(w, pc, OpRTS, TRUE, w.val + 1, 0)

\* BRK: push PC + 2 and the status with B set, set I, load the BRK vector.
BRKVector(v, pc) == Handled(v, pc, OpBRK, TRUE, v.val, 0)
BRKStatus(p, pc) ==
    BRKVector(CReadWord([p EXCEPT !.reg.int = TRUE], BrkVector), pc)
BRKPushed(p, pc) ==
    BRKStatus(pushByte(p, ps([p.reg EXCEPT !.brk = TRUE])), pc)

Handler(c0, opcode) ==
    CASE opcode = OpLDA -> LDA(CRead(c0, c0.reg.pc + 1), c0.reg.pc)
      [] opcode = OpSTA -> STA(CRead(c0, c0.reg.pc + 1), c0.reg.pc)
      [] opcode = OpJMP -> JMP(CReadWord(c0, c0.reg.pc + 1), c0.reg.pc)
      [] opcode = OpRTS -> RTS(pullWord(c0), c0.reg.pc)
      [] opcode = OpBRK -> BRKPushed(pushWord(c0, c0.reg.pc + 2), c0.reg.pc)
      [] OTHER -> Handled(c0, c0.reg.pc, opcode, FALSE, 0, 0)

\* The writeback table's routine for the opcode's target.
WritebackTo(w, target, adr, val) ==
    CASE target = "A" -> [w EXCEPT !.reg.a = val]
      [] target = "PC" -> [w EXCEPT !.reg.nextPC = val]
      [] target = "M" -> CWrite(w, adr, val)
      [] OTHER -> w

Plain(h) ==
    [exc |-> h.exc, reg |-> h.reg, st |-> h.st, executing |-> h.executing,
     ev |-> h.ev, val |-> h.val]

Writeback(h, opcode) ==
    WritebackTo([Plain(h) EXCEPT
                    !.ev = @ \o <<Event("writeback", h.adr, 0, h.val)>>],
                writeback(opcode), h.adr, h.val)

\* Dispatcher.execute's last line: PC <- nextPC.
Commit(w) ==
    IF w.exc # "none" THEN w
    ELSE [w EXCEPT !.reg.pc = w.reg.nextPC,
                   !.ev = @ \o <<Event("commit", w.reg.nextPC, 0, 0)>>]

AfterHandler(h, opcode) ==
    Commit(IF h.exc = "none" /\ h.some THEN Writeback(h, opcode)
           ELSE Plain(h))

\* Dispatcher.execute: resolve, run the handler, write back, commit PC.
Dispatcher_execute(c, opcode) ==
    AfterHandler(
        Handler([c EXCEPT !.ev = @ \o <<Event("resolve", c.reg.pc, 0, opcode)>>],
                opcode),
        opcode)

\* --------------------------------------------------------------- callbacks
\* What a callback does when it is called is the host's code: it is drawn
\* from these sets at each call.
JumpTargets == {ProgBase + 4}
ErrNums == {247}
ErrMsgs == {<<79, 83>>}

Act(act, arg, msg) == [act |-> act, arg |-> arg, msg |-> msg]

UserActs ==
    {Act(a, 0, Empty) : a \in {"nop", "stop", "raise", "poke"}}
    \cup {Act("jump", t, Empty) : t \in JumpTargets}

TrapActs ==
    {Act(a, 0, Empty) : a \in {"handled", "nothandled", "eof"}}
    \cup {Act("bbcerror", n, m) : n \in ErrNums, m \in ErrMsgs}

NoAct == Act("skip", 0, Empty)

\* ReturnTo with the simulated RTS forgetting the + 1.
ReturnToNoIncrement(w) ==
    IF w.exc # "none" THEN w ELSE [w EXCEPT !.reg.pc = w.val]

\* main.hook's simulated RTS: PC <- the word pulled + 1.
ReturnTo(w) == IF w.exc # "none" THEN w ELSE [w EXCEPT !.reg.pc = w.val + 1]

JumpTo(w, address) ==
    IF w.exc # "none" THEN w ELSE [w EXCEPT !.reg.pc = address]

\* hook without its except clause: BBCError leaves the hook.
hookNoExcept(c, act) ==
    CASE act.act = "handled" -> ReturnTo(pullWord(c))
      [] act.act = "bbcerror" -> Raise(c, "BBCError")
      [] act.act = "eof" -> Raise(c, "InputEOFError")
      [] OTHER -> c

\* main.hook of PyBeebU: the code hook of a trap. The interface's call
\* returns handled or not, or raises BBCError(arg, msg) or InputEOFError.
hook(c, act) ==
    CASE act.act = "handled" -> ReturnTo(pullWord(c))
      [] act.act = "bbcerror" ->
           JumpTo(CWriteBytes(CWriteBytes(c, ErrorBlock, <<0, act.arg>>),
                              ErrorBlock + 2, act.msg),
                  ErrorBlock)
      [] act.act = "eof" -> Raise(c, "InputEOFError")
      [] OTHER -> c

\* A callback written by the host's user, through the facade: reg_write of
\* PC, emu_stop, mem_write at PC, or an exception.
userCallback(c, act) ==
    CASE act.act = "jump" -> [c EXCEPT !.reg.pc = act.arg % 65536]
      [] act.act = "stop" -> [c EXCEPT !.executing = FALSE]
      [] act.act = "raise" -> Raise(c, "HookError")
      [] act.act = "poke" -> CWriteBytes(c, c.reg.pc, <<OpNOP>>)
      [] OTHER -> c

\* What a code hook's callback left behind, recorded when it returns.
HookReturn(c2, h, act, before) ==
    [c2 EXCEPT !.ev = @ \o
        <<[ev |-> "hookret", a |-> c2.reg.pc, id |-> h.id, seen |-> 0,
           act |-> act.act, arg |-> act.arg, msg |-> act.msg,
           exc |-> c2.exc, before |-> before, reg |-> c2.reg,
           st |-> c2.st, executing |-> c2.executing]>>]

Callback(c1, h, act) ==
    IF h.cb = "trap" THEN hook(c1, act) ELSE userCallback(c1, act)

\* PbHook.call for a code hook.
PbHook_call(c, h, act) ==
    HookReturn(
        Callback([c EXCEPT !.ev = @ \o <<Event("codehook", c.reg.pc, h.id, 0)>>],
                 h, act),
        h, act, c.reg)

\* ---------------------------------------------------------------- one tick
\* PbDispatcher.execute: the code hooks covering pc, in order, from the
\* i-th; then, when still executing, Dispatcher.execute.
RECURSIVE execHooks(_, _, _, _, _)

\* AfterHook without the test for a changed PC.
AfterHookNoRedirectTest(c2, pc, opcode, acts, i) ==
    IF c2.exc # "none" THEN c2
    ELSE execHooks(c2, pc, opcode, acts, i + 1)

\* After a code hook returned: a changed PC ends the tick.
AfterHook(c2, pc, opcode, acts, i) ==
    IF c2.exc # "none" THEN c2
    ELSE IF pc # c2.reg.pc THEN c2
    ELSE execHooks(c2, pc, opcode, acts, i + 1)

\* execHooks executing the instruction whether or not emu_stop was called.
execHooksIgnoringStop(c, pc, opcode, acts, i) ==
    IF i > Len(hook_exec)
    THEN Dispatcher_execute(c, opcode)
    ELSE IF InHook(hook_exec[i], pc)
    THEN AfterHook(PbHook_call(c, hook_exec[i], acts[i]), pc, opcode, acts, i)
    ELSE execHooks(c, pc, opcode, acts, i + 1)

execHooks(c, pc, opcode, acts, i) ==
    IF i > Len(hook_exec)
    THEN IF c.executing THEN Dispatcher_execute(c, opcode) ELSE c
    ELSE IF InHook(hook_exec[i], pc)
    THEN AfterHook(PbHook_call(c, hook_exec[i], acts[i]), pc, opcode, acts, i)
    ELSE execHooks(c, pc, opcode, acts, i + 1)

\* The code hooks alone, with no instruction after them.
RECURSIVE hooksOnly(_, _, _, _)
hooksOnly(c, pc, acts, i) ==
    IF i > Len(hook_exec) \/ c.exc # "none" THEN c
    ELSE IF InHook(hook_exec[i], pc)
    THEN hooksOnly(PbHook_call(c, hook_exec[i], acts[i]), pc, acts, i + 1)
    ELSE hooksOnly(c, pc, acts, i + 1)

\* PbDispatcher.execute running the instruction first and the hooks after.
PbDispatcher_executeThenHooks(c, pc, opcode, acts) ==
    hooksOnly(Dispatcher_execute(c, opcode), pc, acts, 1)

PbDispatcher_execute(c, pc, opcode, acts) == execHooks(c, pc, opcode, acts, 1)

\* Dispatcher.decode and the lines of Dispatcher.dispatch around it: the
\* opcode read at PC is f.val; nextPC <- pc + length.
Decoded(f, pc, acts) ==
    IF f.exc # "none" THEN f
    ELSE PbDispatcher_execute(
             [f EXCEPT !.reg.nextPC = pc + instructionLength(f.val),
                       !.ev = @ \o <<Event("fetch", pc, 0, f.val)>>],
             pc, f.val, acts)

\* Dispatcher.dispatch (Beeb.tick calls it).
dispatch(c, acts) == Decoded(CRead(c, c.reg.pc), c.reg.pc, acts)

\* The callbacks' choices for one tick: one per code hook covering PC.
ActVectors ==
    {v \in [1..Len(hook_exec) -> UserActs \cup TrapActs \cup {NoAct}] :
        \A i \in 1..Len(hook_exec) :
            IF InHook(hook_exec[i], reg.pc)
            THEN IF hook_exec[i].cb = "trap" THEN v[i] \in TrapActs
                 ELSE v[i] \in UserActs
            ELSE v[i] = NoAct}

\* --------------------------------------------------------------- the facade
\* The guest image the host loads before it runs anything: a program at
\* ProgBase, the ROM code at the trap's entry point, the BRK vector, and a
\* return address on the stack.
Image(word) ==
    (ProgBase :> OpLDA) @@ (ProgBase + 1 :> 65)
    @@ (ProgBase + 2 :> OpSTA) @@ (ProgBase + 3 :> 112)
    @@ (ProgBase + 4 :> OpJMP) @@ (ProgBase + 5 :> ProgBase % 256)
    @@ (ProgBase + 6 :> ProgBase \div 256)
    @@ (TrapCode :> OpNOP)
    @@ (BrkVector :> (ProgBase + 2) % 256)
    @@ (BrkVector + 1 :> (ProgBase + 2) \div 256)
    @@ (StackPage + 254 :> word % 256) @@ (StackPage + 255 :> word \div 256)

StackWords == {4660}
StackPointers == {253, 255}
StartPCs == {ProgBase, TrapCode}
Untils == {0 - 2, ProgBase + 4}
Counts == {0, 2}

\* The hooks the host registers: [htype, cb, begin, end].
HookChoices ==
    {<<PB_HOOK_CODE, "trap", TrapCode, TrapCode + 1>>,
     <<PB_HOOK_CODE, "user", ProgBase, ProgBase + 7>>,
     <<PB_HOOK_CODE, "user", TrapCode, TrapCode + 1>>,
     <<PB_HOOK_MEM_READ, "mem", ProgBase, ProgBase + 1>>,
     <<PB_HOOK_MEM_WRITE, "mem", 112, 113>>}

Init ==
    /\ reg = RegisterBank
    /\ memory = Empty
    /\ maps = Empty
    /\ devs = Empty
    /\ hook_exec = Empty
    /\ hook_read = Empty
    /\ hook_write = Empty
    /\ hook_simple_read = Empty
    /\ hook_simple_write = Empty
    /\ nextId = 1
    /\ executing = FALSE
    /\ at = "new"
    /\ run = [begin |-> 0, until |-> 0, count |-> 0]
    /\ insts = 0
    /\ tk = [pc |-> 0, exc |-> "none"]
    /\ exc = "none"
    /\ log = Empty
    /\ obs = [first |-> 0 - 1, cause |-> "none", ticks |-> 0, runs |-> 0]

\* mem_write of the image and reg_write of SP, before anything runs.
Load ==
    /\ at = "new"
    /\ \E word \in StackWords, sp \in StackPointers :
         /\ memory' = Image(word)
         /\ reg' = [reg EXCEPT !.sp = sp % 256]
    /\ at' = "idle"
    /\ UNCHANGED <<maps, devs, hookVars, executing, run, insts, tk, exc, log,
                   obs>>

\* Pb.reg_write(PB_6502_REG_PC, v).
RegWrite ==
    /\ at = "idle"
    /\ obs.runs = 0
    /\ \E v \in StartPCs : reg' = [reg EXCEPT !.pc = v % 65536]
    /\ UNCHANGED <<memory, maps, devs, hookVars, executing, at, run, insts,
                   tk, exc, log, obs>>

\* Pb.hook_add: the hook goes to the dispatcher and / or to the memory.
HookAdd ==
    /\ at = "idle"
    /\ obs.runs = 0
    /\ nextId <= MaxHooks
    /\ \E ch \in HookChoices :
         LET h == PbHook(nextId, ch[1], ch[2], ch[3], ch[4])
             isCode == BitAnd(h.htype, PB_HOOK_CODE)
             isRead == BitAnd(h.htype, PB_HOOK_MEM_READ)
             isWrite == BitAnd(h.htype, PB_HOOK_MEM_WRITE)
             r == MemHookAdd(hook_read, hook_simple_read, h)
             w == MemHookAdd(hook_write, hook_simple_write, h)
         IN  /\ hook_exec' = IF isCode THEN PbDispatcher_hook_add(hook_exec, h)
                             ELSE hook_exec
             /\ hook_read' = IF isRead THEN r.list ELSE hook_read
             /\ hook_simple_read' = IF isRead THEN r.simple
                                    ELSE hook_simple_read
             /\ hook_write' = IF isWrite THEN w.list ELSE hook_write
             /\ hook_simple_write' = IF isWrite THEN w.simple
                                     ELSE hook_simple_write
    /\ nextId' = nextId + 1
    /\ UNCHANGED <<reg, memory, maps, devs, executing, at, run, insts, tk,
                   exc, log, obs>>

\* Pb.emu_start, up to its loop.
EmuStart ==
    /\ at = "idle"
    /\ obs.runs = 0
    /\ \E begin \in StartPCs, until \in Untils, count \in Counts :
         run' = [begin |-> begin, until |-> until, count |-> count]
    /\ insts' = 0
    /\ executing' = TRUE
    /\ at' = "running"
    /\ exc' = "none"
    /\ log' = Empty
    /\ tk' = [pc |-> 0, exc |-> "none"]
    /\ obs' = [first |-> 0 - 1, cause |-> "none", ticks |-> 0,
               runs |-> obs.runs + 1]
    /\ UNCHANGED <<reg, memory, maps, devs, hookVars>>

\* CountReached testing > where the code tests >=.
CountReachedLate(count, n) == count # 0 /\ n > count

\* emu_start's test after a tick: count instructions have run.
CountReached(count, n) == count # 0 /\ n >= count

\* The rest of a turn of the loop once bbc.tick() has ended as c.
Ticked(c) ==
    /\ reg' = c.reg
    /\ memory' = c.st.memory
    /\ devs' = c.st.devs
    /\ executing' = c.executing
    /\ log' = c.ev
    /\ tk' = [pc |-> reg.pc, exc |-> c.exc]
    /\ insts' = IF c.exc # "none" THEN insts ELSE insts + 1
    /\ at' = IF c.exc # "none" THEN "raising"
             ELSE IF CountReached(run.count, insts + 1) THEN "exiting"
             ELSE "running"
    /\ obs' = [obs EXCEPT
                 !.first = IF obs.ticks = 0 THEN reg.pc ELSE @,
                 !.ticks = @ + 1,
                 !.cause = IF c.exc # "none" THEN "raised"
                           ELSE IF CountReached(run.count, insts + 1)
                           THEN "count" ELSE @]

\* One turn of emu_start's loop: bbc.tick(), insts += 1, the count test.
Tick ==
    /\ at = "running"
    /\ executing /\ reg.pc # run.until
    /\ insts < MaxTicks
    /\ \E acts \in ActVectors :
         Ticked(dispatch(Ctx(reg, Store, executing), acts))
    /\ UNCHANGED <<maps, hookVars, run, exc>>

\* The loop's condition fails: emu_stop was called, or PC is at until.
LoopExit ==
    /\ at = "running"
    /\ ~(executing /\ reg.pc # run.until)
    /\ at' = "exiting"
    /\ obs' = [obs EXCEPT !.cause = IF ~executing THEN "stopped" ELSE "until"]
    /\ UNCHANGED <<reg, memory, maps, devs, hookVars, executing, run, insts,
                   tk, exc, log>>

\* Finally as it would be without try / finally: an exception passing
\* through leaves the flag as it was.
FinallyOnReturnOnly ==
    /\ at \in {"exiting", "raising"}
    /\ executing' = IF at = "raising" THEN executing ELSE FALSE
    /\ exc' = IF at = "raising" THEN tk.exc ELSE "none"
    /\ at' = "idle"
    /\ UNCHANGED <<reg, memory, maps, devs, hookVars, run, insts, tk, log,
                   obs>>

\* emu_start's finally block, on return and on an exception passing through.
Finally ==
    /\ at \in {"exiting", "raising"}
    /\ executing' = FALSE
    /\ exc' = IF at = "raising" THEN tk.exc ELSE "none"
    /\ at' = "idle"
    /\ UNCHANGED <<reg, memory, maps, devs, hookVars, run, insts, tk, log,
                   obs>>

Next == Load \/ RegWrite \/ HookAdd \/ EmuStart \/ Tick \/ LoopExit \/ Finally

Spec == Init /\ [][Next]_vars

\* ------------------------------------------------------------- MOS.call
\* Calls of guest routines made by the host through MOS.call, at top level
\* (executing is FALSE) or from a callback of a running emulation (executing
\* is TRUE). The emulator MOS drives is the one of pybeeb.Emulation: its
\* emu_start sets PC to begin and then loops as Pb.emu_start does, so the
\* nested run is the Tick and LoopExit of the facade. obs holds the run's
\* observations and, of the last call, the registers and the flag at entry,
\* the code hooks at entry, what it returned and how it ended.
ReturnAddress == 65535

\* A routine that loads A and returns.
Routine == ProgBase + 16
CallImage ==
    Image(4660) @@ (Routine :> OpLDA) @@ (Routine + 1 :> 65)
    @@ (Routine + 2 :> OpRTS)

Callees == {Routine, ProgBase}
CallStackPointers == {255, 2}
NoValue == 0 - 1
Patches == {[a |-> 7, x |-> NoValue], [a |-> NoValue, x |-> 8]}
CallHookChoices ==
    {<<PB_HOOK_CODE, "user", Routine + 2, Routine + 3>>,
     <<PB_HOOK_CODE, "user", ProgBase, ProgBase + 1>>}

\* RegisterBank.copy.
Registers_copy(r) ==
    [pc |-> r.pc, sp |-> r.sp, a |-> r.a, x |-> r.x, y |-> r.y,
     nextPC |-> r.nextPC, carry |-> r.carry, zero |-> r.zero, int |-> r.int,
     dec |-> r.dec, brk |-> r.brk, overflow |-> r.overflow,
     negative |-> r.negative]

\* restore leaving the accumulator as the callee left it.
Registers_restoreKeepingA(r, old) ==
    [r EXCEPT !.pc = old.pc, !.sp = old.sp, !.x = old.x,
              !.y = old.y, !.nextPC = old.nextPC, !.carry = old.carry,
              !.zero = old.zero, !.int = old.int, !.dec = old.dec,
              !.brk = old.brk, !.overflow = old.overflow,
              !.negative = old.negative]

\* RegisterBank.restore.
Registers_restore(r, old) ==
    [r EXCEPT !.pc = old.pc, !.sp = old.sp, !.a = old.a, !.x = old.x,
              !.y = old.y, !.nextPC = old.nextPC, !.carry = old.carry,
              !.zero = old.zero, !.int = old.int, !.dec = old.dec,
              !.brk = old.brk, !.overflow = old.overflow,
              !.negative = old.negative]

CallObs(runs, old, was, hooks, preserve, patch, result, exit) ==
    [first |-> 0 - 1, cause |-> "none", ticks |-> 0, runs |-> runs,
     old_regs |-> old, was_executing |-> was, hooks |-> hooks,
     preserve |-> preserve, patch |-> patch, result |-> result,
     exit |-> exit]

CallInit ==
    /\ \E sp \in CallStackPointers :
         reg = [RegisterBank EXCEPT !.pc = ProgBase + 2, !.sp = sp, !.a = 9,
                                    !.carry = TRUE]
    /\ memory = CallImage
    /\ maps = Empty
    /\ devs = Empty
    /\ hook_exec = Empty
    /\ hook_read = Empty
    /\ hook_write = Empty
    /\ hook_simple_read = Empty
    /\ hook_simple_write = Empty
    /\ nextId = 1
    /\ executing \in BOOLEAN
    /\ at = "idle"
    /\ run = [begin |-> 0, until |-> 0, count |-> 0]
    /\ insts = 0
    /\ tk = [pc |-> 0, exc |-> "none"]
    /\ exc = "none"
    /\ log = Empty
    /\ obs = CallObs(0, RegisterBank, FALSE, Empty, FALSE,
                     [a |-> NoValue, x |-> NoValue], RegisterBank, "none")

\* hook_add of a code hook by the host, before it calls anything.
CallHookAdd ==
    /\ at = "idle"
    /\ obs.runs = 0
    /\ hook_exec = Empty
    /\ \E ch \in CallHookChoices :
         hook_exec' = PbDispatcher_hook_add(
                          hook_exec, PbHook(nextId, ch[1], ch[2], ch[3], ch[4]))
    /\ nextId' = nextId + 1
    /\ UNCHANGED <<reg, memory, maps, devs, hook_read, hook_write,
                   hook_simple_read, hook_simple_write, executing, at, run,
                   insts, tk, exc, log, obs>>

\* The registers with the values the caller passed for A and X.
Patched(r, patch) ==
    [r EXCEPT !.a = IF patch.a = NoValue THEN @ ELSE patch.a,
              !.x = IF patch.x = NoValue THEN @ ELSE patch.x]

\* MOS.call up to the loop of emu_start, once PC and the return address
\* are pushed (c): a stack overflow leaves call before the hook is added.
MosCalled(c, address, patch, preserve) ==
    /\ memory' = c.st.memory
    /\ devs' = c.st.devs
    /\ log' = c.ev
    /\ insts' = 0
    /\ tk' = [pc |-> 0, exc |-> c.exc]
    /\ exc' = c.exc
    /\ run' = [begin |-> address, until |-> ReturnAddress, count |-> 0]
    /\ IF c.exc # "none"
       THEN /\ reg' = c.reg
            /\ UNCHANGED <<hook_exec, nextId, executing, at>>
            /\ obs' = CallObs(obs.runs + 1, Registers_copy(reg), executing,
                              hook_exec, preserve, patch, RegisterBank,
                              "raised")
       ELSE /\ reg' = [Patched(c.reg, patch) EXCEPT !.pc = address]
            /\ hook_exec' = PbDispatcher_hook_add(
                                hook_exec,
                                PbHook(nextId, PB_HOOK_CODE, "complete",
                                       ReturnAddress, ReturnAddress + 1))
            /\ nextId' = nextId + 1
            /\ executing' = TRUE
            /\ at' = "running"
            /\ obs' = CallObs(obs.runs + 1, Registers_copy(reg), executing,
                              hook_exec, preserve, patch, RegisterBank,
                              "none")

MosCall ==
    /\ at = "idle"
    /\ obs.runs = 0
    /\ \E address \in Callees, patch \in Patches, preserve \in BOOLEAN :
         MosCalled(pushWord(pushWord(Ctx(reg, Store, executing), reg.pc),
                            ReturnAddress - 1),
                   address, patch, preserve)
    /\ UNCHANGED <<maps, hook_read, hook_write, hook_simple_read,
                   hook_simple_write>>

\* The end of MOS.call after emu_start has returned and its finally block
\* has cleared the flag: pop_pc (c), the copy of the registers, restore.
MosReturned(c) ==
    /\ memory' = c.st.memory
    /\ devs' = c.st.devs
    /\ log' = c.ev
    /\ exc' = c.exc
    /\ IF c.exc # "none"
       THEN /\ reg' = c.reg
            /\ executing' = FALSE
            /\ obs' = [obs EXCEPT !.exit = "raised"]
       ELSE /\ reg' = IF obs.preserve
                      THEN Registers_restore([c.reg EXCEPT !.pc = c.val],
                                             obs.old_regs)
                      ELSE [c.reg EXCEPT !.pc = c.val]
            /\ executing' = obs.was_executing
            /\ obs' = [obs EXCEPT
                         !.exit = "returned",
                         !.result = Registers_copy([c.reg EXCEPT
                                                      !.pc = c.val])]

\* emu_start's finally block inside MOS.call and what follows it: an
\* exception of the nested run leaves call, a return goes on to pop_pc.
MosExit ==
    /\ at \in {"exiting", "raising"}
    /\ at' = "idle"
    /\ IF at = "raising"
       THEN /\ executing' = FALSE
            /\ exc' = tk.exc
            /\ obs' = [obs EXCEPT !.exit = "raised"]
            /\ UNCHANGED <<reg, memory, devs, log>>
       ELSE MosReturned(pullWord(Ctx(reg, Store, FALSE)))
    /\ UNCHANGED <<maps, hookVars, run, insts, tk>>

CallNext == CallHookAdd \/ MosCall \/ Tick \/ LoopExit \/ MosExit

SpecCall == CallInit /\ [][CallNext]_vars

\* ------------------------------------------------------- PyBeebU.main
\* main on its own: the interfaces it creates and starts, the run of
\* bbc.go with the traps it takes, and the finally block. obs holds the list
\* interfaces, the name interface (0: unbound), the interfaces whose start()
\* was called and returned, the stop() calls in order, the terminal's mode and why the
\* try block was left; tk holds the last trap and its outcome.
MaxTraps == 2

interface_classes == <<"OSWRCH", "OSRDCH", "OSCLI", "OSBYTE", "OSWORD">>

StartOutcomes == {"ok", "init raises", "start raises"}

\* What interface.call does in a trap: handled or not, a BBCError, and for
\* OSRDCH the end of the input; anything else is an error.
TrapOutcomes(i) ==
    {"handled", "nothandled", "BBCError", "error"}
    \cup (IF interface_classes[i] = "OSRDCH" THEN {"InputEOFError"} ELSE {})

MainInit ==
    /\ reg = RegisterBank
    /\ memory = Empty
    /\ maps = Empty
    /\ devs = Empty
    /\ hook_exec = Empty
    /\ hook_read = Empty
    /\ hook_write = Empty
    /\ hook_simple_read = Empty
    /\ hook_simple_write = Empty
    /\ nextId = 1
    /\ executing = FALSE
    /\ at = "starting"
    /\ run = [begin |-> 0, until |-> 0, count |-> 0]
    /\ insts = 0
    /\ tk = [pc |-> 0, exc |-> "none"]
    /\ exc = "none"
    /\ log = Empty
    /\ obs = [interfaces |-> Empty, interface |-> 0, started |-> {},
              stops |-> Empty, terminal |-> "cooked", traps |-> 0,
              cause |-> "none"]

\* One turn of main's for loop over interface_classes: cls(), start(),
\* interfaces.append; OSRDCH.start puts the terminal into raw mode.
InterfaceStarted(i, outcome) ==
    /\ at' = IF outcome = "ok" THEN "starting" ELSE "finally"
    /\ obs' = [obs EXCEPT
                 !.interface = IF outcome = "init raises" THEN @ ELSE i,
                 !.started = IF outcome = "ok" THEN @ \cup {i} ELSE @,
                 !.interfaces = IF outcome = "ok" THEN Append(@, i) ELSE @,
                 !.terminal = IF outcome = "ok"
                                 /\ interface_classes[i] = "OSRDCH"
                              THEN "raw" ELSE @,
                 !.cause = IF outcome = "ok" THEN @ ELSE "error"]

StartInterface ==
    /\ at = "starting"
    /\ Len(obs.interfaces) < Len(interface_classes)
    /\ \E outcome \in StartOutcomes :
         InterfaceStarted(Len(obs.interfaces) + 1, outcome)
    /\ UNCHANGED <<reg, memory, maps, devs, hookVars, executing, run, insts,
                   tk, exc, log>>

\* bbc.go(syscalls) is entered once every interface is started.
Go ==
    /\ at = "starting"
    /\ Len(obs.interfaces) = Len(interface_classes)
    /\ at' = "running"
    /\ executing' = TRUE
    /\ UNCHANGED <<reg, memory, maps, devs, hookVars, run, insts, tk, exc,
                   log, obs>>

\* A trap taken during the run: main's hook calls interface.call; it
\* catches BBCError, anything else leaves bbc.go.
Trapped(i, outcome) ==
    /\ tk' = [pc |-> i, exc |-> outcome]
    /\ at' = IF outcome \in {"InputEOFError", "error"} THEN "finally"
             ELSE "running"
    /\ executing' = (outcome \notin {"InputEOFError", "error"})
    /\ obs' = [obs EXCEPT
                 !.traps = @ + 1,
                 !.cause = IF outcome \in {"InputEOFError", "error"}
                           THEN outcome ELSE @]

Trap ==
    /\ at = "running"
    /\ obs.traps < MaxTraps
    /\ \E i \in 1..Len(interface_classes) :
         \E outcome \in TrapOutcomes(i) : Trapped(i, outcome)
    /\ UNCHANGED <<reg, memory, maps, devs, hookVars, run, insts, exc, log>>

\* bbc.go returns: the run has ended.
GoReturns ==
    /\ at = "running"
    /\ at' = "finally"
    /\ executing' = FALSE
    /\ obs' = [obs EXCEPT !.cause = "return"]
    /\ UNCHANGED <<reg, memory, maps, devs, hookVars, run, insts, tk, exc,
                   log>>

\* The stop() calls of `for interfaces in reversed(interfaces):
\* interface.stop()`: one per element of the list, each on the object the
\* name interface is bound to.
StopCalls(interfaces, interface) ==
    [j \in 1..Len(interfaces) |-> interface]

\* main's except and finally clauses: InputEOFError is caught, the stop()
\* calls are made, any other exception leaves main.
MainFinally ==
    /\ at = "finally"
    /\ at' = "done"
    /\ exc' = IF obs.cause = "error" THEN "error" ELSE "none"
    /\ obs' = [obs EXCEPT
                 !.stops = StopCalls(obs.interfaces, obs.interface),
                 !.terminal =
                     IF \E j \in 1..Len(StopCalls(obs.interfaces,
                                                  obs.interface)) :
                           interface_classes[
                               StopCalls(obs.interfaces, obs.interface)[j]]
                           = "OSRDCH"
                     THEN "cooked" ELSE @]
    /\ UNCHANGED <<reg, memory, maps, devs, hookVars, executing, run, insts,
                   tk, log>>

MainNext == StartInterface \/ Go \/ Trap \/ GoReturns \/ MainFinally

SpecMain == MainInit /\ [][MainNext]_vars

\* ------------------------------------------------- the filesystem adapter
\* The FS object behind OSFINDhost and OSFILEhost, from the start of the
\* interfaces to their stop. obs holds FS.filehandles (handle -> OpenFile),
\* FS._next_filehandle, the host file objects that are open, the guest
\* files that exist and the number of OpenFile objects made; tk holds the
\* last call and the handle or exception it gave.
MaxOpens == 3

filehandle_max == 255
open_in == 64
open_out == 128

GuestFiles == {"A", "B"}
CloseHandles ==
    {0, 1, 2, filehandle_max, filehandle_max - 1, filehandle_max - 2}

\* The while loops of allocate_filehandle taking the number below n whether
\* it is in filehandles or not.
NextBelowUntested(n, filehandles) == IF n = 0 THEN 0 ELSE n - 1

\* The while loops of allocate_filehandle: down from n to the first handle
\* that is not in filehandles, or to 0 (0 is never in filehandles), that is
\* the highest number below n that is not in filehandles.
NextBelow(n, filehandles) ==
    IF n = 0 THEN 0
    ELSE CHOOSE m \in 0..(n - 1) :
            /\ m \notin DOMAIN filehandles
            /\ \A k \in (m + 1)..(n - 1) : k \in DOMAIN filehandles

\* FS.allocate_filehandle, after the handle is taken: the next handle.
NextAfterAllocate(below, filehandles) ==
    IF below = 0 THEN NextBelow(filehandle_max + 1, filehandles) ELSE below

\* The while loop of release_filehandle: up from handle while the handle
\* above is free.
RECURSIVE NextAbove(_, _)
NextAbove(handle, filehandles) ==
    IF handle < filehandle_max /\ handle + 1 \notin DOMAIN filehandles
    THEN NextAbove(handle + 1, filehandles)
    ELSE handle

FsCall(op, name, handle, ex) ==
    [op |-> op, name |-> name, handle |-> handle, exc |-> ex]

\* The adapter and the host before a call, kept in obs.prev for the
\* properties: the handles in use, _next_filehandle, the host file objects
\* that are open and the guest files that exist.
Prev ==
    [handles |-> DOMAIN obs.filehandles, next |-> obs.next,
     files |-> obs.files, exists |-> obs.exists]

FsInit ==
    /\ reg = RegisterBank
    /\ memory = Empty
    /\ maps = Empty
    /\ devs = Empty
    /\ hook_exec = Empty
    /\ hook_read = Empty
    /\ hook_write = Empty
    /\ hook_simple_read = Empty
    /\ hook_simple_write = Empty
    /\ nextId = 1
    /\ executing = FALSE
    /\ at = "started"
    /\ run = [begin |-> 0, until |-> 0, count |-> 0]
    /\ insts = 0
    /\ tk = FsCall("none", "", 0, "none")
    /\ exc = "none"
    /\ log = Empty
    /\ obs = [filehandles |-> Empty, next |-> filehandle_max, files |-> {},
              exists |-> {"A"}, made |-> 0,
              prev |-> [handles |-> {}, next |-> filehandle_max,
                        files |-> {}, exists |-> {"A"}]]

\* FS.open(filename, how) called for op: find, ensure_exists when writing,
\* OpenFile (the host file is opened), allocate_filehandle.
FS_open(op, name, how) ==
    IF name \notin obs.exists /\ how = open_in
    THEN /\ tk' = FsCall(op, name, 0, "BBCFileNotFoundError")
         /\ obs' = [obs EXCEPT !.prev = Prev]
    ELSE IF obs.next = 0
    THEN /\ tk' = FsCall(op, name, 0, "BBCNoHandlesError")
         /\ obs' = [obs EXCEPT !.exists = @ \cup {name},
                               !.files = @ \cup {obs.made + 1},
                               !.made = @ + 1,
                               !.prev = Prev]
    ELSE /\ tk' = FsCall(op, name, obs.next, "none")
         /\ obs' = [obs EXCEPT
                      !.exists = @ \cup {name},
                      !.files = @ \cup {obs.made + 1},
                      !.made = @ + 1,
                      !.prev = Prev,
                      !.filehandles = (obs.next :> (obs.made + 1)) @@ @,
                      !.next = NextAfterAllocate(
                                   NextBelow(obs.next,
                                             (obs.next :> 0) @@ obs.filehandles),
                                   (obs.next :> 0) @@ obs.filehandles)]

\* FS.close with a release_filehandle that leaves _next_filehandle alone.
FS_closeKeepingNext(handle) ==
    IF handle = 0
    THEN /\ tk' = FsCall("close", "", handle, "BBCError")
         /\ obs' = [obs EXCEPT !.prev = Prev]
    ELSE IF handle \notin DOMAIN obs.filehandles
    THEN /\ tk' = FsCall("close", "", handle, "BBCBadHandleError")
         /\ obs' = [obs EXCEPT !.prev = Prev]
    ELSE /\ tk' = FsCall("close", "", handle, "none")
         /\ obs' = [obs EXCEPT
                      !.prev = Prev,
                      !.files = @ \ {obs.filehandles[handle]},
                      !.filehandles = Without(@, handle)]

\* FS.close(handle): find_filehandle, OpenFile.close, release_filehandle.
FS_close(handle) ==
    IF handle = 0
    THEN /\ tk' = FsCall("close", "", handle, "BBCError")
         /\ obs' = [obs EXCEPT !.prev = Prev]
    ELSE IF handle \notin DOMAIN obs.filehandles
    THEN /\ tk' = FsCall("close", "", handle, "BBCBadHandleError")
         /\ obs' = [obs EXCEPT !.prev = Prev]
    ELSE /\ tk' = FsCall("close", "", handle, "none")
         /\ obs' = [obs EXCEPT
                      !.prev = Prev,
                      !.files = @ \ {obs.filehandles[handle]},
                      !.filehandles = Without(@, handle),
                      !.next = IF handle > obs.next
                               THEN NextAbove(handle,
                                              Without(obs.filehandles, handle))
                               ELSE @]

\* OSFINDhost.open.
OsfindOpen ==
    /\ at = "started"
    /\ obs.made < MaxOpens
    /\ \E name \in GuestFiles, how \in {open_in, open_out} :
         FS_open("open", name, how)
    /\ UNCHANGED <<reg, memory, maps, devs, hookVars, executing, at, run,
                   insts, exc, log>>

\* OSFINDhost.close.
OsfindClose ==
    /\ at = "started"
    /\ \E handle \in CloseHandles : FS_close(handle)
    /\ UNCHANGED <<reg, memory, maps, devs, hookVars, executing, at, run,
                   insts, exc, log>>

\* OSFILEhost.save: ensure_exists, fs.open for output, fs.write.
OsfileSave ==
    /\ at = "started"
    /\ obs.made < MaxOpens
    /\ \E name \in GuestFiles : FS_open("save", name, open_out)
    /\ UNCHANGED <<reg, memory, maps, devs, hookVars, executing, at, run,
                   insts, exc, log>>

\* The interfaces are stopped: OSInterface.stop of each does nothing.
StopInterfaces ==
    /\ at = "started"
    /\ at' = "stopped"
    /\ UNCHANGED <<reg, memory, maps, devs, hookVars, executing, run, insts,
                   tk, exc, log, obs>>

FsNext == OsfindOpen \/ OsfindClose \/ OsfileSave \/ StopInterfaces

SpecFS == FsInit /\ [][FsNext]_vars

\* The same adapter later in its life: the guest has opened files until
\* only the handles 1..FreeHandles are left (the handles are given out from
\* filehandle_max downwards), so that the table can run out. The files
\* opened before are numbered below zero.
FreeHandles == 2

HeldHandles == [h \in (FreeHandles + 1)..filehandle_max |-> 0 - h]

HandlesInit ==
    /\ reg = RegisterBank
    /\ memory = Empty
    /\ maps = Empty
    /\ devs = Empty
    /\ hook_exec = Empty
    /\ hook_read = Empty
    /\ hook_write = Empty
    /\ hook_simple_read = Empty
    /\ hook_simple_write = Empty
    /\ nextId = 1
    /\ executing = FALSE
    /\ at = "started"
    /\ run = [begin |-> 0, until |-> 0, count |-> 0]
    /\ insts = 0
    /\ tk = FsCall("none", "", 0, "none")
    /\ exc = "none"
    /\ log = Empty
    /\ obs = [filehandles |-> HeldHandles, next |-> FreeHandles,
              files |-> {HeldHandles[h] : h \in DOMAIN HeldHandles},
              exists |-> {"A"}, made |-> 0,
              prev |-> [handles |-> DOMAIN HeldHandles, next |-> FreeHandles,
                        files |-> {HeldHandles[h] : h \in DOMAIN HeldHandles},
                        exists |-> {"A"}]]

SpecHandles == HandlesInit /\ [][FsNext]_vars

\* ------------------------------------------------ OSARGS and OSWORD 0
\* The guest sets A, X and Y and enters the trap of OSARGS or of OSWORD 0.
\* tk holds the last call: what it returned and the exception that left it;
\* obs holds what the sub-operation reported (handled), the attribute Y the
\* call left on the register object (NoValue: none), what was typed and how
\* many bytes the call wrote to the guest's buffer.
ArgsOps == {0, 1, 2, 255}
ArgsHandles == {0, filehandle_max, filehandle_max - 1}
ArgsClasses == {"OSARGS", "OSARGShost"}
ReadlineClasses == {"PyBeebU.OSWORD", "host.OSWORDtty", "hosttty.OSWORDtty"}
Typed == {<<"line", <<>> >>, <<"line", <<65>> >>, <<"line", <<65, 66, 67>> >>,
          <<"escape", <<>> >>, <<"eof", <<>> >>}

\* Two control blocks: buffer address (low, high), maximum line length;
\* the long words of OSARGS go to ArgsBlocks.
Blocks == {112, 120}
ArgsBlocks == {96}
OsImage ==
    (112 :> 128) @@ (113 :> 0) @@ (114 :> 3)
    @@ (120 :> 144) @@ (121 :> 0) @@ (122 :> 0)
    @@ (64 :> filehandle_max) @@ (65 :> 128) @@ (69 :> 2)
    @@ (73 :> 5) @@ (74 :> 1)

\* memory.writeLongWord: four bytes, low byte first.
writeLongWord(st, address, value) ==
    Memory_writeBytes(st, address,
                      <<value % 256, (value \div 256) % 256,
                        (value \div 65536) % 256, (value \div 16777216) % 256>>)

\* What the sub-operation of OSARGS selected by op and fh reports: its
\* result (NoValue: None), whether that counts as handled, the register or
\* the long word it is stored to, and the exception of a bad handle. The
\* file system has the handle filehandle_max open, at PTR 5 of EXT 9 (the
\* new PTR of write_ptr is not kept: no property here reads it back).
SubOperation(cls, op, fh) ==
    LET host == cls = "OSARGShost"
        bad == host /\ fh # 0 /\ fh # filehandle_max /\ op \in {0, 1, 2, 255}
        value == CASE fh = 0 /\ op = 0 -> IF host THEN 4 ELSE NoValue
                   [] fh # 0 /\ op = 0 -> IF host THEN 5 ELSE NoValue
                   [] fh # 0 /\ op = 2 -> IF host THEN 9 ELSE NoValue
                   [] OTHER -> NoValue
        flag == host /\ fh # 0 /\ op \in {1, 255}
    IN  [exc |-> IF bad THEN "BBCBadHandleError" ELSE "none",
         handled |-> ~bad /\ (value # NoValue \/ flag),
         a |-> IF ~bad /\ fh = 0 /\ op = 0 THEN value ELSE NoValue,
         long |-> IF ~bad /\ fh # 0 /\ op \in {0, 2} THEN value ELSE NoValue]

\* OSARGS.osargs returning what the sub-operation reported.
osargsReturningHandled(r) == r.handled

\* OSARGS.osargs: its last statement is `return False`.
osargs(r) == FALSE

OsCall(op, returned, ex) == [op |-> op, returned |-> returned, exc |-> ex]

OsInit ==
    /\ reg = RegisterBank
    /\ memory = OsImage
    /\ maps = Empty
    /\ devs = Empty
    /\ hook_exec = Empty
    /\ hook_read = Empty
    /\ hook_write = Empty
    /\ hook_simple_read = Empty
    /\ hook_simple_write = Empty
    /\ nextId = 1
    /\ executing = TRUE
    /\ at = "running"
    /\ run = [begin |-> 0, until |-> 0, count |-> 0]
    /\ insts = 0
    /\ tk = OsCall("none", FALSE, "none")
    /\ exc = "none"
    /\ log = Empty
    /\ obs = [handled |-> FALSE, Y |-> NoValue, typed |-> <<"none", <<>> >>,
              cls |-> "none", maxline |-> 0, buffer |-> 0,
              fn |-> "none", ptr |-> NoValue, written |-> 0]

\* OSARGS.call with A = op, X = address, Y = fh; r is the sub-operation's
\* report and w the store after the long word is written.
ArgsCalled(cls, op, address, fh, r, w) ==
    /\ reg' = [reg EXCEPT !.a = IF r.a # NoValue THEN r.a ELSE op,
                          !.x = address, !.y = fh]
    /\ memory' = IF r.long # NoValue THEN w.st.memory ELSE memory
    /\ tk' = OsCall("osargs", r.exc = "none" /\ osargs(r), r.exc)
    /\ obs' = [handled |-> r.handled, Y |-> NoValue,
               typed |-> <<"none", <<>> >>, cls |-> cls,
               maxline |-> 0, buffer |-> 0, fn |-> "none", ptr |-> NoValue,
               written |-> 0]

Osargs ==
    /\ \E cls \in ArgsClasses, op \in ArgsOps, fh \in ArgsHandles,
          address \in ArgsBlocks :
         ArgsCalled(cls, op, address, fh, SubOperation(cls, op, fh),
                    writeLongWord(Store, address,
                                  SubOperation(cls, op, fh).long))
    /\ UNCHANGED <<maps, devs, hookVars, executing, at, run, insts, exc, log>>

\* result[:maxline - 1] of Python: a negative bound counts from the end.
Truncated(line, maxline) ==
    IF maxline - 1 >= 0 THEN SubSeq(line, 1, Min(maxline - 1, Len(line)))
    ELSE SubSeq(line, 1, Max(Len(line) + maxline - 1, 0))

\* osword_readline of the class cls with the control block at address
\* (Y = 0: the block is in page zero) and what read_line gives: w is the
\* store after the line and its CR are written at the buffer.
ReadlineCalled(cls, address, typed, stored, w) ==
    /\ memory' = IF typed[1] = "line" THEN w.st.memory ELSE memory
    /\ reg' = [reg EXCEPT
                 !.a = 0, !.x = address,
                 !.carry = IF typed[1] = "eof" THEN @
                           ELSE typed[1] = "escape",
                 !.y = IF typed[1] = "eof" \/ cls # "hosttty.OSWORDtty" THEN 0
                       ELSE IF typed[1] = "line" THEN Len(stored) ELSE 0]
    /\ tk' = OsCall("readline",
                    typed[1] = "escape" \/ (typed[1] = "line" /\ w.exc = "none"),
                    IF typed[1] = "eof" THEN "InputEOFError"
                    ELSE IF typed[1] = "line" THEN w.exc ELSE "none")
    /\ obs' = [handled |-> FALSE,
               Y |-> IF typed[1] = "eof" \/ cls = "hosttty.OSWORDtty"
                     THEN NoValue
                     ELSE IF typed[1] = "line" THEN Len(stored) ELSE 0,
               typed |-> typed, cls |-> cls,
               maxline |-> RamRead(Store, address + 2),
               buffer |-> RamRead(Store, address)
                          + 256 * RamRead(Store, address + 1),
               fn |-> "none", ptr |-> NoValue,
               written |-> IF typed[1] = "line" /\ w.exc = "none"
                           THEN Len(stored) ELSE 0]

Readline ==
    /\ \E cls \in ReadlineClasses, address \in Blocks, typed \in Typed :
         ReadlineCalled(
             cls, address, typed,
             Truncated(typed[2], RamRead(Store, address + 2)) \o <<13>>,
             Memory_writeBytes(
                 Store,
                 RamRead(Store, address) + 256 * RamRead(Store, address + 1),
                 Truncated(typed[2], RamRead(Store, address + 2)) \o <<13>>))
    /\ UNCHANGED <<maps, devs, hookVars, executing, at, run, insts, exc, log>>

\* OSGBPB: A selects the operation and X, Y the control block: the file
\* handle at +0, the data address at +1, the length at +5 and the
\* sequential pointer at +9. obs.fn names the method the call reached and
\* obs.ptr the pointer it was given (NoValue: None).
GbpbOps == {1, 2, 3, 4}
GbpbBlocks == {64}

\* memory.readLongWord: four bytes, low byte first.
readLongWord(st, address) ==
    RamRead(st, address) + 256 * RamRead(st, address + 1)
    + 65536 * RamRead(st, address + 2) + 16777216 * RamRead(st, address + 3)

\* OSGBPB.call_put_bytes up to its call of put_bytes(fh, data, ptr, pb).
call_put_bytes(op, address) ==
    [fn |-> "put_bytes", fh |-> RamRead(Store, address),
     datalen |-> readLongWord(Store, address + 5),
     ptr |-> IF op = 1 THEN readLongWord(Store, address + 9) ELSE NoValue]

\* OSGBPB.call_get_bytes up to its call of get_bytes(fh, datalen, ptr, pb):
\* the test of the operation is `op == 1` here too.
call_get_bytes(op, address) ==
    [fn |-> "get_bytes", fh |-> RamRead(Store, address),
     datalen |-> readLongWord(Store, address + 5),
     ptr |-> IF op = 1 THEN readLongWord(Store, address + 9) ELSE NoValue]

\* The dispatch table of OSGBPB for A = 1..4.
GbpbDispatch(op, address) ==
    IF op \in {1, 2} THEN call_put_bytes(op, address)
    ELSE call_get_bytes(op, address)

\* OSInterface.call of OSGBPB; put_bytes and get_bytes of the base class
\* return None, so nothing is transferred and the call is not handled.
GbpbCalled(op, address, passed) ==
    /\ reg' = [reg EXCEPT !.a = op, !.x = address, !.y = 0]
    /\ tk' = OsCall("gbpb", FALSE, "none")
    /\ obs' = [handled |-> FALSE, Y |-> NoValue,
               typed |-> <<"none", <<>> >>, cls |-> "OSGBPB",
               maxline |-> 0, buffer |-> 0,
               fn |-> passed.fn, ptr |-> passed.ptr, written |-> 0]

Osgbpb ==
    /\ \E op \in GbpbOps, address \in GbpbBlocks :
         GbpbCalled(op, address, GbpbDispatch(op, address))
    /\ UNCHANGED <<memory, maps, devs, hookVars, executing, at, run, insts,
                   exc, log>>

OsNext == Osargs \/ Readline \/ Osgbpb

SpecOs == OsInit /\ [][OsNext]_vars

\* --------------------------------------- the console and its interfaces
\* The host's terminal delivers the bytes of keys (a letter, Escape, cursor
\* up, an accented letter whole or cut short) to the console (obs.pending
\* holds the bytes not yet read, obs.eof whether the input has ended) and
\* the guest
\* calls OSRDCH (readc polls Console.getch with no timeout until it gets
\* something) and OSBYTE &81 (inkey, one getch with a timeout). Console is
\* a singleton: both interfaces share obs.con. tk is the call in progress
\* or the last call: at is "polling" while readc is in its loop, val what
\* getch gave last, taken the number of bytes that getch consumed.
MaxPending == 3
TtyKeys == {<<65>>, <<27>>, <<27, 91, 65>>, <<195>>, <<195, 169>>}
InkeyArgs == {<<10, 0>>, <<0, 255>>, <<128, 255>>}
EndOfInput == 0 - 2

\* Console.__init__: no sequence in progress.
ConsoleNew ==
    [in_escape |-> FALSE, in_escape_sequence |-> <<>>,
     in_utf8 |-> 0, in_utf8_sequence |-> <<>>]

\* What getch returns: None, a byte string or a tuple.
Got(kind, bytes) == [kind |-> kind, bytes |-> bytes]
None == Got("None", <<>>)

\* Console.escape_codes, the entries the bytes of TtyBytes can spell.
escape_codes == (<<91, 65>> :> 143)

\* Console.parse_escape (the modifiers it strips need digits).
parse_escape(seq) ==
    IF seq = <<>> \/ seq = <<27>> THEN Got("bytes", <<27>>)
    ELSE IF seq \in DOMAIN escape_codes
         THEN Got("bytes", <<escape_codes[seq]>>)
         ELSE None

\* Console.parse_utf8 of a two byte sequence: decode, encode as latin-1
\* (one byte) and return the pair (b'\x00', byte).
parse_utf8(seq) == Got("tuple", <<0, (seq[1] % 32) * 64 + (seq[2] % 64)>>)

\* The length of the UTF-8 sequence the byte ch starts.
Utf8Length(ch) == IF ch >= 240 THEN 4 ELSE IF ch >= 224 THEN 3 ELSE 2

GetchDone(con, q, val, ex) == [con |-> con, pending |-> q, val |-> val, exc |-> ex]

\* The loop of getch inside an escape sequence: int_getch with the escape
\* timeout gives the next pending byte, or None when none arrives in time.
RECURSIVE EscapeLoop(_, _)
EscapeLoop(seq, q) ==
    IF q = <<>> THEN [seq |-> seq, q |-> q]
    ELSE LET ch == Head(q)
             s2 == Append(seq, ch)
             ends == IF s2[1] = 79 THEN Len(s2) = 2
                     ELSE \/ (ch >= 65 /\ ch <= 90)
                          \/ (ch >= 97 /\ ch <= 122)
                          \/ ch = 126
                          \/ (Len(s2) = 1 /\ ch # 91)
         IN  IF ends THEN [seq |-> s2, q |-> Tail(q)]
             ELSE EscapeLoop(s2, Tail(q))

\* getch in an escape sequence: the loop ends with the sequence complete or
\* with the escape timeout passed, and the sequence is decoded.
EscapeStage(con, q) ==
    LET r == EscapeLoop(con.in_escape_sequence, q)
    IN  GetchDone([con EXCEPT !.in_escape = FALSE,
                              !.in_escape_sequence = r.seq],
                  r.q, parse_escape(r.seq), "none")

\* The loop of getch inside a UTF-8 sequence, with time left.
RECURSIVE Utf8Loop(_, _)
Utf8Loop(con, q) ==
    IF q = <<>> THEN GetchDone(con, q, None, "none")
    ELSE LET ch == Head(q)
             acc == con.in_utf8_sequence
             s2 == Append(con.in_utf8_sequence, ch)
         IN  IF ch < 128
             THEN GetchDone([con EXCEPT !.in_utf8 = 0], Tail(q),
                            Got("bytes", IF acc # <<>> THEN acc \o <<ch>>
                                         ELSE acc), "none")
             ELSE IF ch >= 192
             THEN GetchDone([con EXCEPT !.in_utf8 = Utf8Length(ch),
                                        !.in_utf8_sequence = <<ch>>],
                            Tail(q), Got("bytes", acc), "none")
             ELSE IF Len(s2) = con.in_utf8
             THEN GetchDone([con EXCEPT !.in_utf8 = 0,
                                        !.in_utf8_sequence = s2],
                            Tail(q), parse_utf8(s2), "none")
             ELSE Utf8Loop([con EXCEPT !.in_utf8_sequence = s2], Tail(q))

\* getch in a UTF-8 sequence: `while timeout > 0 and self.in_utf8`. With
\* no timeout the comparison None > 0 is false on Python 2, so the loop is
\* skipped and None returned; on Python 3 it raises TypeError.
Utf8Stage(con, q, timed, py) ==
    IF ~timed
    THEN GetchDone(con, q, None, IF py = 2 THEN "none" ELSE "TypeError")
    ELSE Utf8Loop(con, q)

\* Console.int_getch: the next pending byte; with none pending, None after
\* the timeout, or b'' from a read with no timeout at the end of input.
int_getch(q, timed) ==
    IF q # <<>> THEN [ch |-> Head(q), q |-> Tail(q)]
    ELSE [ch |-> IF timed THEN NoValue ELSE EndOfInput, q |-> q]

\* getch outside any sequence, after its int_getch gave ch: None is compared
\* with b'\x80' (false on Python 2, TypeError on Python 3).
FirstStage(con, ch, q, timed, py) ==
    IF ch = NoValue
    THEN GetchDone(con, q, None, IF py = 2 THEN "none" ELSE "TypeError")
    ELSE IF ch = EndOfInput THEN GetchDone(con, q, Got("bytes", <<>>), "none")
    ELSE IF ch = 27
    THEN EscapeStage([con EXCEPT !.in_escape = TRUE,
                                 !.in_escape_sequence = <<>>], q)
    ELSE IF ch >= 192 /\ ch <= 247
    THEN Utf8Stage([con EXCEPT !.in_utf8 = Utf8Length(ch),
                               !.in_utf8_sequence = <<ch>>], q, timed, py)
    ELSE IF ch >= 128 THEN GetchDone(con, q, Got("tuple", <<0, ch>>), "none")
    ELSE GetchDone(con, q, Got("bytes", <<ch>>), "none")

\* Console.getch(timeout): timed is FALSE for timeout None.
getch(con, q, timed, py) ==
    IF ~con.in_escape /\ con.in_utf8 = 0
    THEN FirstStage(con, int_getch(q, timed).ch, int_getch(q, timed).q,
                    timed, py)
    ELSE IF con.in_escape THEN EscapeStage(con, q)
    ELSE Utf8Stage(con, q, timed, py)

TtyCall(op, where, val, ex, taken) ==
    [op |-> op, at |-> where, val |-> val, exc |-> ex, taken |-> taken]

TtyInit ==
    /\ reg = RegisterBank
    /\ memory = Empty
    /\ maps = Empty
    /\ devs = Empty
    /\ hook_exec = Empty
    /\ hook_read = Empty
    /\ hook_write = Empty
    /\ hook_simple_read = Empty
    /\ hook_simple_write = Empty
    /\ nextId = 1
    /\ executing = TRUE
    /\ at = "running"
    /\ run = [begin |-> 0, until |-> 0, count |-> 0]
    /\ insts = 0
    /\ tk = TtyCall("none", "idle", None, "none", 0)
    /\ exc = "none"
    /\ log = Empty
    /\ obs = [con |-> ConsoleNew, pending |-> <<>>, eof |-> FALSE]

\* The terminal delivers the bytes of one more key.
Deliver ==
    /\ ~obs.eof
    /\ \E key \in TtyKeys :
         /\ Len(obs.pending) + Len(key) <= MaxPending
         /\ obs' = [obs EXCEPT !.pending = @ \o key]
    /\ UNCHANGED <<reg, memory, maps, devs, hookVars, nextId, executing, at,
                   run, insts, tk, exc, log>>

\* The terminal's input ends.
CloseInput ==
    /\ ~obs.eof
    /\ obs' = [obs EXCEPT !.eof = TRUE]
    /\ UNCHANGED <<reg, memory, maps, devs, hookVars, nextId, executing, at,
                   run, insts, tk, exc, log>>

\* OSRDCHpostbuffer.call entered with C = 1: readc starts its loop.
ReadcCall ==
    /\ tk.at # "polling"
    /\ reg' = [reg EXCEPT !.carry = TRUE]
    /\ tk' = TtyCall("readc", "polling", None, "none", 0)
    /\ UNCHANGED <<memory, maps, devs, hookVars, nextId, executing, at, run,
                   insts, exc, log, obs>>

\* One round of readc's loop with what getch gave: None keeps it polling,
\* b'' raises InputEOFError, anything else is returned to call, which takes
\* ord of it (TypeError if it is not one character), sets the escape flag
\* for 27 and returns the character in A with C = 0.
ReadcPolled(g) ==
    LET one == g.val.kind = "bytes" /\ Len(g.val.bytes) = 1
        taken == Len(obs.pending) - Len(g.pending)
    IN  /\ obs' = [obs EXCEPT !.con = g.con, !.pending = g.pending]
        /\ tk' = IF g.exc # "none"
                 THEN TtyCall("readc", "raised", g.val, g.exc, taken)
                 ELSE IF g.val = None
                 THEN TtyCall("readc", "polling", g.val, "none", taken)
                 ELSE IF g.val.bytes = <<>>
                 THEN TtyCall("readc", "raised", g.val, "InputEOFError", taken)
                 ELSE TtyCall("readc", "returned", g.val,
                              IF one THEN "none" ELSE "TypeError", taken)
        /\ reg' = IF g.exc = "none" /\ g.val # None /\ one
                  THEN [reg EXCEPT !.carry = FALSE, !.a = g.val.bytes[1]]
                  ELSE reg
        /\ memory' = IF g.exc = "none" /\ one /\ g.val.bytes = <<27>>
                     THEN (255 :> 128) @@ memory ELSE memory

\* getch with no timeout waits in its first read until a byte is pending
\* or the input has ended.
ReadcPoll ==
    /\ tk.op = "readc" /\ tk.at = "polling"
    /\ \/ obs.pending # <<>>
       \/ obs.eof
       \/ obs.con.in_utf8 # 0
    /\ \E py \in Pythons :
         ReadcPolled(getch(obs.con, obs.pending, FALSE, py))
    /\ UNCHANGED <<maps, devs, hookVars, nextId, executing, at, run, insts,
                   exc, log>>

\* OSBYTEtty.inkey: the carry it leaves, for what getch gave.
inkeyCarry(g) == g.val = Got("bytes", <<27>>)

\* OSBYTEtty.inkey(a, x, y, regs, memory) with what getch(delay) gave.
inkey(x, y, g) ==
    LET early == y = 255 /\ (x = 0 \/ x >= 128)
        one == g.val.kind = "bytes" /\ Len(g.val.bytes) = 1
        ex == IF g.exc # "none" THEN g.exc
              ELSE IF g.val = Got("bytes", <<>>) THEN "InputEOFError"
              ELSE IF g.val # None /\ ~one THEN "TypeError"
              ELSE "none"
    IN  /\ obs' = IF early THEN obs
                  ELSE [obs EXCEPT !.con = g.con, !.pending = g.pending]
        /\ tk' = IF early THEN TtyCall("inkey", "unhandled", None, "none", 0)
                 ELSE TtyCall("inkey", IF ex = "none" THEN "returned"
                                       ELSE "raised",
                              g.val, ex, Len(obs.pending) - Len(g.pending))
        /\ reg' = IF early \/ ex # "none" THEN [reg EXCEPT !.x = x, !.y = y]
                  ELSE IF g.val # None
                  THEN [reg EXCEPT !.x = g.val.bytes[1], !.y = 0,
                                   !.carry = inkeyCarry(g)]
                  ELSE [reg EXCEPT !.x = x, !.y = 255,
                                   !.carry = inkeyCarry(g)]

Inkey ==
    /\ tk.at # "polling"
    /\ \E args \in InkeyArgs, py \in Pythons :
         inkey(args[1], args[2], getch(obs.con, obs.pending, TRUE, py))
    /\ UNCHANGED <<memory, maps, devs, hookVars, nextId, executing, at, run,
                   insts, exc, log>>

TtyNext == Deliver \/ CloseInput \/ ReadcCall \/ ReadcPoll \/ Inkey

SpecTty == TtyInit /\ [][TtyNext]_vars

\* The terminal keeps delivering bytes and the emulator keeps running
\* readc's loop.
SpecTtyFair == SpecTty /\ WF_vars(Deliver) /\ WF_vars(ReadcPoll)

\* ------------------------------------- single calls on a prepared machine
\* One call of a register, memory or stack primitive on a machine the host
\* has prepared: tk holds the call, its argument, the exception that left it
\* and the value it returned; obs holds the registers before the call.
PB_6502_REG_PC == 1
PB_6502_REG_SP == 2
PB_6502_REG_A == 3
PB_6502_REG_X == 4
PB_6502_REG_Y == 5
PB_6502_REG_PS == 6
RegIds == 0..7
RegValues == {4660, 0 - 1, 74565}
Facades == {"pybeeb.PyBeebicorn", "PyBeebicorn"}
Memories == {"pybeeb.CPU.Memory", "CPU.Memory"}
WordAddresses == {112, 65534, 65535}
PreparedSPs == {0, 1, 251, 253, 255}
PreparedPCs == {0, TrapCode, 65535}
PushedBytes == {7}
PushedWords == {4660}

\* The guest memory: the word 0x1234 at 112, a NOP at 0xFFFF, a NOP at the
\* trap's address, the return address 0xFFFF on the stack above SP = 253
\* and the return address TrapCode - 1 above SP = 251.
PreparedImage ==
    (112 :> 52) @@ (113 :> 18) @@ (65534 :> 7) @@ (65535 :> OpNOP)
    @@ (TrapCode :> OpNOP)
    @@ (StackPage + 252 :> (TrapCode - 1) % 256)
    @@ (StackPage + 253 :> (TrapCode - 1) \div 256)
    @@ (StackPage + 254 :> 255) @@ (StackPage + 255 :> 255)

\* The code hooks the host has registered: none, or the trap of main.
PreparedHooks ==
    {Empty, <<PbHook(1, PB_HOOK_CODE, "trap", TrapCode, TrapCode + 1)>>}

\* RegisterBank.setPS leaving the break flag alone.
setPSWithoutBreak(r, value) ==
    [r EXCEPT !.carry = BitAnd(value, 1), !.zero = BitAnd(value, 2),
              !.int = BitAnd(value, 4), !.dec = BitAnd(value, 8),
              !.overflow = BitAnd(value, 64), !.negative = BitAnd(value, 128)]

\* RegisterBank.setPS.
setPS(r, value) ==
    [r EXCEPT !.carry = BitAnd(value, 1), !.zero = BitAnd(value, 2),
              !.int = BitAnd(value, 4), !.dec = BitAnd(value, 8),
              !.brk = BitAnd(value, 16),
              !.overflow = BitAnd(value, 64), !.negative = BitAnd(value, 128)]

\* The write half of Pb.reg_dispatch of pybeeb/PyBeebicorn.py.
Pb_write(r, reg_id, v) ==
    CASE reg_id = PB_6502_REG_PC -> [r EXCEPT !.pc = v % 65536]
      [] reg_id = PB_6502_REG_SP -> [r EXCEPT !.sp = v % 256]
      [] reg_id = PB_6502_REG_A -> [r EXCEPT !.a = v % 256]
      [] reg_id = PB_6502_REG_X -> [r EXCEPT !.x = v % 256]
      [] reg_id = PB_6502_REG_Y -> [r EXCEPT !.y = v % 256]
      [] reg_id = PB_6502_REG_PS -> setPS(r, v)

\* The write half of Pb.reg_dispatch of the top-level PyBeebicorn.py.
TopPb_write(r, reg_id, v) ==
    CASE reg_id = PB_6502_REG_PC -> [r EXCEPT !.pc = v]
      [] reg_id = PB_6502_REG_SP -> [r EXCEPT !.sp = v]
      [] reg_id = PB_6502_REG_A -> [r EXCEPT !.a = v]
      [] reg_id = PB_6502_REG_X -> [r EXCEPT !.x = v]
      [] reg_id = PB_6502_REG_Y -> [r EXCEPT !.y = v]
      [] reg_id = PB_6502_REG_PS -> setPS(r, v)

\* Pb.reg_write of the facade: [exc, reg]. The top-level facade masks every
\* value to a byte before it dispatches, and names its error ERR_ARG, which
\* is not defined in that module.
reg_write(facade, r, reg_id, value) ==
    IF reg_id \notin PB_6502_REG_PC..PB_6502_REG_PS
    THEN [exc |-> IF facade = "PyBeebicorn" THEN "NameError"
                  ELSE "PbError(PB_ERR_ARG)",
          reg |-> r]
    ELSE [exc |-> "none",
          reg |-> IF facade = "PyBeebicorn"
                  THEN TopPb_write(r, reg_id, value % 256)
                  ELSE Pb_write(r, reg_id, value)]

\* Pb.reg_read of a known register: the read half of reg_dispatch.
reg_read(r, reg_id) ==
    CASE reg_id = PB_6502_REG_PC -> r.pc
      [] reg_id = PB_6502_REG_SP -> r.sp
      [] reg_id = PB_6502_REG_A -> r.a
      [] reg_id = PB_6502_REG_X -> r.x
      [] reg_id = PB_6502_REG_Y -> r.y
      [] reg_id = PB_6502_REG_PS -> ps(r)
      [] OTHER -> NoValue

\* Memory.readByte of the top-level CPU/Memory.py: [exc, val]. A covering
\* range of the dict of maps is read at the address itself.
TopMemory_readByte(st, address) ==
    IF address < 0 \/ address > 65535
    THEN [exc |-> "InvalidAddress", val |-> 0]
    ELSE IF \E i \in 1..Len(maps) : isInMap(maps[i], address)
    THEN [exc |-> "none",
          val |-> DevRead(st, maps[CHOOSE i \in 1..Len(maps) :
                                      isInMap(maps[i], address)].dev,
                          address)]
    ELSE [exc |-> "none", val |-> RamRead(st, address)]

\* Memory.readWord of the top-level CPU/Memory.py:
\* readByte(address) + readByte(address + 1) << 8, where + binds tighter
\* than <<.
TopWord(lo, hi) ==
    [exc |-> IF lo.exc # "none" THEN lo.exc ELSE hi.exc,
     val |-> (lo.val + hi.val) * 256]

TopMemory_readWord(st, address) ==
    TopWord(TopMemory_readByte(st, address),
            TopMemory_readByte(st, address + 1))

\* MOS.push_byte: write at 0x100 + SP, decrement SP, raise below zero.
MOS_pushed(w) ==
    IF w.exc # "none" THEN w
    ELSE IF w.reg.sp - 1 < 0
    THEN [w EXCEPT !.reg.sp = @ - 1, !.exc = "StackOverflow"]
    ELSE [w EXCEPT !.reg.sp = @ - 1]

MOS_push_byte(c, value) == MOS_pushed(CWrite(c, c.reg.sp + StackPage, value))

\* MOS.pull_byte: increment SP, raise above 0xff, read at 0x100 + SP.
MOS_pull_byte(c) ==
    IF c.exc # "none" THEN c
    ELSE IF c.reg.sp + 1 > 255
    THEN [c EXCEPT !.reg.sp = @ + 1, !.exc = "StackUnderflow"]
    ELSE CRead([c EXCEPT !.reg.sp = @ + 1], c.reg.sp + 1 + StackPage)

\* MOS.push_word: the high byte, then the low byte.
MOS_push_word(c, value) ==
    MOS_push_byte(MOS_push_byte(c, value \div 256), value % 256)

\* MOS.pull_word: the low byte, then the high byte.
MOS_pulled(lo) == WordOf(lo.val, MOS_pull_byte(lo))
MOS_pull_word(c) == MOS_pulled(MOS_pull_byte(c))

Called(op, impl, arg, ex, val) ==
    [op |-> op, impl |-> impl, arg |-> arg, exc |-> ex, val |-> val]

PreparedInit ==
    /\ \E sp \in PreparedSPs, pc \in PreparedPCs :
         reg = [RegisterBank EXCEPT !.sp = sp, !.pc = pc]
    /\ memory = PreparedImage
    /\ maps = Empty
    /\ devs = Empty
    /\ hook_exec \in PreparedHooks
    /\ hook_read = Empty
    /\ hook_write = Empty
    /\ hook_simple_read = Empty
    /\ hook_simple_write = Empty
    /\ nextId = 1
    /\ executing = TRUE
    /\ at = "prepared"
    /\ run = [begin |-> 0, until |-> 0, count |-> 0]
    /\ insts = 0
    /\ tk = Called("none", "none", 0, "none", 0)
    /\ exc = "none"
    /\ log = Empty
    /\ obs = [before |-> RegisterBank, id |-> 0, pushed |-> 0]

\* What a call leaves behind: registers, store and the record of the call.
CallDone(op, impl, arg, id, r, st, ex, val, pushed) ==
    /\ reg' = r
    /\ memory' = st.memory
    /\ devs' = st.devs
    /\ tk' = Called(op, impl, arg, ex, val)
    /\ obs' = [before |-> reg, id |-> id, pushed |-> pushed]
    /\ UNCHANGED <<maps, hookVars, executing, at, run, insts, exc, log>>

\* reg.setPS(value).
SetPS ==
    /\ tk.op = "none"
    /\ \E value \in 0..255 :
         CallDone("setPS", "RegisterBank", value, 0, setPS(reg, value), Store,
                  "none", 0, 0)

\* reg.setPS(reg.ps()).
RestorePS ==
    /\ tk.op = "setPS"
    /\ CallDone("restorePS", "RegisterBank", ps(reg), 0, setPS(reg, ps(reg)),
                Store, "none", 0, 0)

\* pb.reg_write(reg_id, value), then pb.reg_read(reg_id) when it returned.
RegWritten(facade, reg_id, value, w) ==
    CallDone("reg_write", facade, value, reg_id, w.reg, Store, w.exc,
             reg_read(w.reg, reg_id), 0)

RegWriteRead ==
    /\ tk.op = "none"
    /\ \E facade \in Facades, reg_id \in RegIds, value \in RegValues :
         RegWritten(facade, reg_id, value,
                    reg_write(facade, reg, reg_id, value))

\* memory.readWord(address) of either Memory class.
WordRead(impl, address, c, t) ==
    CallDone("readWord", impl, address, 0, reg, Store,
             IF impl = "CPU.Memory" THEN t.exc ELSE c.exc,
             IF impl = "CPU.Memory" THEN t.val ELSE c.val, 0)

ReadWord ==
    /\ tk.op = "none"
    /\ \E impl \in Memories, address \in WordAddresses :
         WordRead(impl, address,
                  CReadWord(Ctx(reg, Store, executing), address),
                  TopMemory_readWord(Store, address))

\* mos.push_byte(value), then mos.pull_byte() when the push returned.
BytePulled(value, w, c) ==
    CallDone("push_pull_byte", "MOS", value, 0, c.reg, c.st, c.exc, c.val,
             w.reg.sp)

PushPullByte ==
    /\ tk.op = "none"
    /\ \E value \in PushedBytes :
         BytePulled(value,
                    MOS_push_byte(Ctx(reg, Store, executing), value),
                    MOS_pull_byte(
                        MOS_push_byte(Ctx(reg, Store, executing), value)))

\* mos.push_word(value), then mos.pull_word() when the push returned.
WordPulled(value, w, c) ==
    CallDone("push_pull_word", "MOS", value, 0, c.reg, c.st, c.exc, c.val,
             w.reg.sp)

PushPullWord ==
    /\ tk.op = "none"
    /\ \E value \in PushedWords :
         WordPulled(value,
                    MOS_push_word(Ctx(reg, Store, executing), value),
                    MOS_pull_word(
                        MOS_push_word(Ctx(reg, Store, executing), value)))

\* mos.pull_byte() on the stack as prepared.
Pulled(c) ==
    CallDone("pull_byte", "MOS", 0, 0, c.reg, c.st, c.exc, c.val, 0)

PullByte ==
    /\ tk.op = "none"
    /\ Pulled(MOS_pull_byte(Ctx(reg, Store, executing)))

\* One tick at the prepared PC: Dispatcher.dispatch, with the trap's
\* outcome when the hook of the trap covers PC.
TickDone(c) ==
    /\ reg' = c.reg
    /\ memory' = c.st.memory
    /\ devs' = c.st.devs
    /\ executing' = c.executing
    /\ log' = c.ev
    /\ tk' = Called("tick", "Dispatcher", reg.pc, c.exc, 0)
    /\ obs' = [before |-> reg, id |-> 0, pushed |-> 0]
    /\ UNCHANGED <<maps, hookVars, at, run, insts, exc>>

TickAtPC ==
    /\ tk.op = "none"
    /\ \E acts \in ActVectors :
         TickDone(dispatch(Ctx(reg, Store, executing), acts))

\* main.hook of a trap whose interface handled the call: the simulated RTS.
TrapDone(c) ==
    CallDone("trap", "main.hook", c.val, 0, c.reg, c.st, c.exc, 0, 0)

TrapReturn ==
    /\ tk.op = "none"
    /\ TrapDone(hook(Ctx(reg, Store, executing), Act("handled", 0, Empty)))

PreparedNext ==
    \/ SetPS
    \/ RestorePS
    \/ RegWriteRead
    \/ ReadWord
    \/ PushPullByte
    \/ PushPullWord
    \/ PullByte
    \/ TickAtPC
    \/ TrapReturn

SpecPrepared == PreparedInit /\ [][PreparedNext]_vars

\* ------------------------------------------- the memory used on its own
\* A PbMemory with mapped devices and memory hooks, and byte and bulk
\* accesses made to it. tk holds the last access and its outcome, log what
\* it did in order, obs the value at the address before and after it.
MaxMaps == 2
MaxLen == 8

MapBase == 8192
Regions == {<<MapBase, MapBase + 3>>, <<MapBase + 2, MapBase + 5>>}
ByteAddresses == {0 - 1, MapBase - 1, MapBase + 2}
BulkAddresses == {MapBase - 2, MapBase, 65528}
Sizes == {0, 1, 3, MaxLen}
HookedSizes == {1, 3}
WriteAddresses == {MapBase - 1, MapBase}
ByteWrites == {MapBase, MapBase + 2, 65536}
WriteValues == {7}
ByteValues == WriteValues \cup {256}
WriteData == {<<7>>, <<7, 7>>}
MemHookChoices ==
    {<<PB_HOOK_MEM_WRITE, MapBase, MapBase + 1>>,
     <<PB_HOOK_MEM_WRITE, MapBase - 1, MapBase + 2>>,
     <<PB_HOOK_MEM_READ + PB_HOOK_MEM_WRITE, MapBase - 1, MapBase>>}

\* RAM around the regions holds bytes no device returns.
RamImage == [x \in (MapBase - 2)..(MapBase + 8) |-> 160 + x - MapBase]

Access(op, address, size, value, ex, data) ==
    [op |-> op, address |-> address, size |-> size, value |-> value,
     exc |-> ex, data |-> data]

MemInit ==
    /\ reg = RegisterBank
    /\ memory = RamImage
    /\ maps = Empty
    /\ devs = [d \in 1..(MaxMaps + 1) |-> Empty]
    /\ hook_exec = Empty
    /\ hook_read = Empty
    /\ hook_write = Empty
    /\ hook_simple_read = Empty
    /\ hook_simple_write = Empty
    /\ nextId = 1
    /\ executing = FALSE
    /\ at = "idle"
    /\ run = [begin |-> 0, until |-> 0, count |-> 0]
    /\ insts = 0
    /\ tk = Access("none", 0, 0, 0, "none", Empty)
    /\ exc = "none"
    /\ log = Empty
    /\ obs = [before |-> 0, after |-> 0, hooks |-> Empty,
               st0 |-> Store]

\* Memory.map(range, device). The host maps its devices and adds its hooks
\* before it accesses the memory.
MapRegion ==
    /\ tk.op = "none"
    /\ Len(maps) < MaxMaps
    /\ \E r \in Regions :
         maps' = Append(maps, [base |-> r[1], end |-> r[2],
                               dev |-> Len(maps) + 1])
    /\ UNCHANGED <<reg, memory, devs, hookVars, executing, at, run, insts,
                   tk, exc, log, obs>>

\* The hooks of one configuration differ in kind or range.
Registered ==
    {<<hook_write[k].htype, hook_write[k].address, hook_write[k].end>> :
        k \in 1..Len(hook_write)}

\* PbMemory.hook_add.
MemHook ==
    /\ tk.op = "none"
    /\ nextId <= MaxHooks
    /\ \E ch \in MemHookChoices \ Registered :
         LET h == PbHook(nextId, ch[1], "mem", ch[2], ch[3])
             isRead == BitAnd(h.htype, PB_HOOK_MEM_READ)
             isWrite == BitAnd(h.htype, PB_HOOK_MEM_WRITE)
             r == MemHookAdd(hook_read, hook_simple_read, h)
             w == MemHookAdd(hook_write, hook_simple_write, h)
         IN  /\ hook_read' = IF isRead THEN r.list ELSE hook_read
             /\ hook_simple_read' = IF isRead THEN r.simple
                                    ELSE hook_simple_read
             /\ hook_write' = IF isWrite THEN w.list ELSE hook_write
             /\ hook_simple_write' = IF isWrite THEN w.simple
                                     ELSE hook_simple_write
    /\ nextId' = nextId + 1
    /\ UNCHANGED <<reg, memory, maps, devs, hook_exec, executing, at, run,
                   insts, tk, exc, log, obs>>

\* PbMemory.readByte(address).
ByteRead(address, r) ==
    /\ tk' = Access("readByte", address, 1, 0, r.exc, <<r.val>>)
    /\ log' = r.ev
    /\ obs' = [before |-> Seen(Store, address),
               after |-> Seen(Store, address), hooks |-> hook_read,
               st0 |-> Store]

ReadByte ==
    /\ \E address \in ByteAddresses :
         ByteRead(address, PbMemory_readByte(Store, address))
    /\ UNCHANGED <<reg, memory, maps, devs, hookVars, executing, at, run,
                   insts, exc>>

\* PbMemory.writeByte(address, value).
ByteWritten(address, value, r) ==
    /\ memory' = r.st.memory
    /\ devs' = r.st.devs
    /\ tk' = Access("writeByte", address, 1, value, r.exc, Empty)
    /\ log' = r.ev
    /\ obs' = [before |-> Seen(Store, address),
               after |-> Seen(r.st, address), hooks |-> hook_write,
               st0 |-> Store]

WriteByte ==
    /\ \E address \in ByteWrites, value \in ByteValues :
         ByteWritten(address, value,
                     PbMemory_writeByte(Store, address, value))
    /\ UNCHANGED <<reg, maps, hookVars, executing, at, run, insts, exc>>

\* Memory.readBytes(address, size).
BulkRead(address, size, r) ==
    /\ tk' = Access("readBytes", address, size, 0, r.exc, r.data)
    /\ log' = Empty
    /\ obs' = [before |-> 0, after |-> 0, hooks |-> Empty,
               st0 |-> Store]

ReadBytes ==
    /\ \E address \in BulkAddresses, size \in Sizes :
         BulkRead(address, size, Memory_readBytes(Store, address, size))
    /\ UNCHANGED <<reg, memory, maps, devs, hookVars, executing, at, run,
                   insts, exc>>

\* Pb.mem_read(address, size).
MemReadDone(address, size, r) ==
    /\ tk' = Access("mem_read", address, size, Empty, r.exc, r.data)
    /\ log' = r.ev
    /\ obs' = [before |-> 0, after |-> 0, hooks |-> hook_read,
               st0 |-> Store]

MemRead ==
    /\ \E py \in Pythons, address \in BulkAddresses, size \in HookedSizes :
         MemReadDone(address, size, mem_read(py, Store, address, size))
    /\ UNCHANGED <<reg, memory, maps, devs, hookVars, executing, at, run,
                   insts, exc>>

\* Pb.mem_write(address, data).
MemWriteDone(address, data, r) ==
    /\ memory' = r.st.memory
    /\ devs' = r.st.devs
    /\ tk' = Access("mem_write", address, Len(data), data, r.exc, Empty)
    /\ log' = r.ev
    /\ obs' = [before |-> 0, after |-> 0, hooks |-> hook_write,
               st0 |-> r.st]

MemWrite ==
    /\ \E py \in Pythons, address \in WriteAddresses, data \in WriteData :
         MemWriteDone(address, data, mem_write(py, Store, address, data))
    /\ UNCHANGED <<reg, maps, hookVars, executing, at, run, insts, exc>>

MemNext ==
    MapRegion \/ MemHook \/ ReadByte \/ WriteByte \/ ReadBytes \/ MemRead
    \/ MemWrite

SpecMem == MemInit /\ [][MemNext]_vars

\* ------------------------------------------------ the hooks on their own
\* Pb.hook_add and Pb.hook_del in any order, and byte accesses between
\* them. obs keeps what the host knows: the hooks it has registered and not
\* deleted, in order, and what was called for each address before its last
\* hook_add.
MaxAdds == 3

HookKinds == {"code", "read", "write"}
HookedAddresses == ProgBase..(ProgBase + 2)
HookedWrites == {ProgBase, ProgBase + 1}
HkChoices ==
    {<<PB_HOOK_MEM_READ, ProgBase, ProgBase + 1>>,
     <<PB_HOOK_MEM_READ + PB_HOOK_MEM_WRITE, ProgBase + 1, ProgBase + 2>>,
     <<PB_HOOK_MEM_READ + PB_HOOK_MEM_WRITE, ProgBase, ProgBase + 2>>,
     <<PB_HOOK_CODE + PB_HOOK_MEM_WRITE, ProgBase, ProgBase + 1>>}

Ids(hooks) == [i \in 1..Len(hooks) |-> hooks[i].id]

\* The hooks PbDispatcher.execute calls at pc, when none of them moves PC.
CodeCalled(pc) == SelectSeq(hook_exec, LAMBDA h : InHook(h, pc))

\* The callbacks fired for an address, by kind.
Fired(kind, address) ==
    CASE kind = "code" -> Ids(CodeCalled(address))
      [] kind = "read" ->
           Ids(HooksCalled(hook_read, hook_simple_read, address))
      [] OTHER -> Ids(HooksCalled(hook_write, hook_simple_write, address))

Behaviour == [k \in HookKinds, a \in HookedAddresses |-> Fired(k, a)]

\* The registered hooks of a kind that cover the address, in order.
Covering(registered, htype, address) ==
    Ids(SelectSeq(registered,
                  LAMBDA h : BitAnd(h.htype, htype) /\ InHook(h, address)))

HkInit ==
    /\ reg = RegisterBank
    /\ memory = Empty
    /\ maps = Empty
    /\ devs = Empty
    /\ hook_exec = Empty
    /\ hook_read = Empty
    /\ hook_write = Empty
    /\ hook_simple_read = Empty
    /\ hook_simple_write = Empty
    /\ nextId = 1
    /\ executing = FALSE
    /\ at = "idle"
    /\ run = [begin |-> 0, until |-> 0, count |-> 0]
    /\ insts = 0
    /\ tk = Access("none", 0, 0, 0, "none", Empty)
    /\ exc = "none"
    /\ log = Empty
    /\ obs = [registered |-> Empty, snap |-> Behaviour, added |-> 0,
              restored |-> FALSE, expected |-> Empty]

\* Pb.hook_add(htype, callback, begin, end), returning the hook h.
HookAdded(h, r, w) ==
    /\ hook_exec' = IF BitAnd(h.htype, PB_HOOK_CODE)
                    THEN PbDispatcher_hook_add(hook_exec, h) ELSE hook_exec
    /\ hook_read' = IF BitAnd(h.htype, PB_HOOK_MEM_READ) THEN r.list
                    ELSE hook_read
    /\ hook_simple_read' = IF BitAnd(h.htype, PB_HOOK_MEM_READ) THEN r.simple
                           ELSE hook_simple_read
    /\ hook_write' = IF BitAnd(h.htype, PB_HOOK_MEM_WRITE) THEN w.list
                     ELSE hook_write
    /\ hook_simple_write' = IF BitAnd(h.htype, PB_HOOK_MEM_WRITE)
                            THEN w.simple ELSE hook_simple_write
    /\ obs' = [obs EXCEPT !.registered = Append(@, h), !.snap = Behaviour,
                          !.added = h.id, !.restored = FALSE]

PbHookAddOf(h) ==
    HookAdded(h, MemHookAdd(hook_read, hook_simple_read, h),
              MemHookAdd(hook_write, hook_simple_write, h))

PbHookAdd ==
    /\ nextId <= MaxAdds
    /\ \E ch \in HkChoices : PbHookAddOf(PbHook(nextId, ch[1], "mem", ch[2], ch[3]))
    /\ nextId' = nextId + 1
    /\ UNCHANGED <<reg, memory, maps, devs, executing, at, run, insts, tk,
                   exc, log>>

\* Pb.hook_del(h), h a hook the host holds.
HookDeleted(h, r, w) ==
    /\ hook_exec' = IF BitAnd(h.htype, PB_HOOK_CODE)
                    THEN PbDispatcher_hook_del(hook_exec, h) ELSE hook_exec
    /\ hook_read' = IF BitAnd(h.htype, PB_HOOK_MEM_READ) THEN r.list
                    ELSE hook_read
    /\ hook_simple_read' = IF BitAnd(h.htype, PB_HOOK_MEM_READ) THEN r.simple
                           ELSE hook_simple_read
    /\ hook_write' = IF BitAnd(h.htype, PB_HOOK_MEM_WRITE) THEN w.list
                     ELSE hook_write
    /\ hook_simple_write' = IF BitAnd(h.htype, PB_HOOK_MEM_WRITE)
                            THEN w.simple ELSE hook_simple_write
    /\ obs' = [obs EXCEPT !.registered = Remove(@, h), !.added = 0,
                          !.restored = (h.id = obs.added)]

PbHookDelOf(h) ==
    HookDeleted(h, MemHookDel(hook_read, hook_simple_read, h),
                MemHookDel(hook_write, hook_simple_write, h))

PbHookDel ==
    /\ \E i \in 1..Len(obs.registered) : PbHookDelOf(obs.registered[i])
    /\ UNCHANGED <<reg, memory, maps, devs, nextId, executing, at, run,
                   insts, tk, exc, log>>

\* PbMemory.readByte(address) with the hooks as they are.
HookedReadDone(address, r) ==
    /\ tk' = Access("readByte", address, 1, 0, r.exc, <<r.val>>)
    /\ log' = r.ev
    /\ obs' = [obs EXCEPT !.expected =
                  Covering(obs.registered, PB_HOOK_MEM_READ, address)]

HookedRead ==
    /\ \E address \in HookedAddresses :
         HookedReadDone(address, PbMemory_readByte(Store, address))
    /\ UNCHANGED <<reg, memory, maps, devs, hookVars, executing, at, run,
                   insts, exc>>

\* PbMemory.writeByte(address, value) with the hooks as they are.
HookedWriteDone(address, value, r) ==
    /\ memory' = r.st.memory
    /\ devs' = r.st.devs
    /\ tk' = Access("writeByte", address, 1, value, r.exc, Empty)
    /\ log' = r.ev
    /\ obs' = [obs EXCEPT !.expected =
                  Covering(obs.registered, PB_HOOK_MEM_WRITE, address)]

HookedWrite ==
    /\ \E address \in HookedWrites, value \in WriteValues :
         HookedWriteDone(address, value,
                         PbMemory_writeByte(Store, address, value))
    /\ UNCHANGED <<reg, maps, hookVars, executing, at, run, insts, exc>>

HkNext == PbHookAdd \/ PbHookDel \/ HookedRead \/ HookedWrite

SpecHooks == HkInit /\ [][HkNext]_vars

\* ------------------------------------------------ properties of a run
HookRets == {i \in 1..Len(log) : log[i].ev = "hookret"}
CodeHooks == {i \in 1..Len(log) : log[i].ev = "codehook"}
ExecKinds == {"resolve", "handler", "writeback", "commit"}
FetchKinds == {"rhook", "read", "devread", "fetch"}
Kinds(k) == {i \in 1..Len(log) : log[i].ev \in k}
Returned == at = "idle" /\ obs.runs > 0
WordAt(st, address) == RamRead(st, address) + 256 * RamRead(st, address + 1)

\* C1: emu_start(begin, until, count) sets PC to begin before the first
\* tick: the first instruction the run executes is the one at begin.
C1_FirstTickAtBegin == obs.ticks > 0 => obs.first = run.begin

\* C3 (as stated): every code hook covering P is called before any part of
\* the instruction's decode-execute-writeback sequence, the opcode fetch at
\* P (and its memory-read hooks) included, and the instruction executed is
\* the one found at P after the hooks returned.
C3_HooksBeforeFetch ==
    /\ \A j \in CodeHooks : \A i \in 1..(j - 1) : log[i].ev \notin FetchKinds
    /\ \A j \in Kinds({"handler"}) : \A i \in HookRets :
          (i < j /\ \A k \in HookRets : k <= i)
              => log[j].seen = RamRead(log[i].st, tk.pc)

\* C3 (amended): in a tick at P the opcode at P is fetched and decoded
\* first, firing the memory-read hooks on P; every code hook covering P is
\* called after that fetch and strictly before operand resolution, the
\* mnemonic handler, writeback and the commit of PC; the instruction
\* executed is the one decoded before the hooks were called.
C3_HooksAfterFetchBeforeExecute ==
    /\ \A j \in CodeHooks :
          /\ \A i \in 1..(j - 1) : log[i].ev \notin ExecKinds
          /\ \E i \in 1..(j - 1) : log[i].ev = "fetch" /\ log[i].a = log[j].a
    /\ \A j \in Kinds({"handler"}) : \A i \in Kinds({"fetch"}) :
          log[j].seen = log[i].seen

\* A tick in which a code hook changed the byte at P and the instruction
\* decoded before it was called was executed.
C3_Witness ==
    \E i \in HookRets : \E j \in Kinds({"handler"}) :
        i < j /\ log[i].act = "poke" /\ log[j].seen # RamRead(Store, tk.pc)

\* C4: a code hook that leaves PC different from P ends the tick: nothing is
\* resolved, handled, written back or committed, no later hook is called,
\* and after the tick PC is the value the hook set.
C4_RedirectAbandonsInstruction ==
    \A i \in HookRets :
        (log[i].exc = "none" /\ log[i].a # tk.pc)
            => /\ i = Len(log)
               /\ Kinds(ExecKinds) = {}
               /\ reg.pc = log[i].a

C4_Witness ==
    \E i \in HookRets :
        log[i].exc = "none" /\ log[i].a # tk.pc /\ log[i].act = "jump"

\* C5: a trap that returns handled pulls a word w (low byte first) from the
\* stack: SP ends 2 higher and PC = w + 1, stacked 0x1234 giving 0x1235; a
\* trap that returns not handled leaves the registers alone and the
\* instruction at the trap's address executes in that tick.
C5_HandledSimulatesRTS ==
    /\ \A i \in HookRets :
          (log[i].act = "handled" /\ log[i].before.sp <= 253)
              => /\ log[i].exc = "none"
                 /\ log[i].reg.sp = log[i].before.sp + 2
                 /\ log[i].a = WordAt(log[i].st,
                                      StackPage + log[i].before.sp + 1) + 1
                 /\ (WordAt(log[i].st, StackPage + log[i].before.sp + 1) = 4660
                        => log[i].a = 4661)
    /\ \A i \in HookRets :
          log[i].act = "nothandled"
              => /\ log[i].reg = log[i].before
                 /\ (\A k \in HookRets : log[k].act \in {"nothandled", "nop"})
                        => \E j \in Kinds({"handler"}) :
                              j > i /\ log[j].a = tk.pc

C5_Witness ==
    \E i \in HookRets :
        /\ log[i].act = "handled" /\ log[i].before.sp = 253
        /\ log[i].a = 4661 /\ log[i].reg.sp = 255

\* C6: BBCError(num, msg) raised by a trap does not leave emu_start: the
\* hook writes 0, num and the message at 0x0100 and sets PC to 0x0100, and
\* the run goes on from there.
C6_BBCErrorHandedToGuest ==
    \A i \in HookRets :
        log[i].act = "bbcerror"
            => /\ log[i].exc = "none" /\ tk.exc = "none" /\ exc = "none"
               /\ RamRead(log[i].st, ErrorBlock) = 0
               /\ RamRead(log[i].st, ErrorBlock + 1) = log[i].arg
               /\ \A k \in 1..Len(log[i].msg) :
                     RamRead(log[i].st, ErrorBlock + 1 + k) = log[i].msg[k]
               /\ log[i].a = ErrorBlock
               /\ reg.pc = ErrorBlock
               /\ at # "raising"
               /\ (at = "running" /\ \A k \in HookRets : log[k].act # "stop")
                      => executing

C6_Witness ==
    \E i \in HookRets :
        /\ log[i].act = "bbcerror" /\ at = "running" /\ executing
        /\ reg.pc = ErrorBlock /\ RamRead(Store, ErrorBlock + 1) = 247

\* C7: emu_start leaves executing False however it ends, and an exception
\* raised in a tick reaches the caller of emu_start as it was raised.
C7_ExecutingClearedOnEveryExit ==
    Returned => /\ executing = FALSE
                /\ exc = tk.exc
                /\ (obs.cause = "raised") = (exc # "none")

C7_Witness == Returned /\ exc = "InputEOFError" /\ ~executing

\* C8: after emu_stop called in a code hook at P, the hooks leaving PC at P,
\* the instruction at P is not executed, no further tick begins, and
\* emu_start returns with PC = P and registers and memory as the hooks left
\* them.
StoppedInTick ==
    /\ \E i \in HookRets : log[i].act = "stop"
    /\ \A i \in HookRets : log[i].exc = "none" /\ log[i].a = tk.pc

C8_StopLeavesInstructionUnexecuted ==
    StoppedInTick
        => /\ Kinds(ExecKinds) = {}
           /\ ~executing
           /\ at \in {"running", "exiting", "idle"}
           /\ reg.pc = tk.pc
           /\ \A i \in HookRets :
                 (\A k \in HookRets : k <= i)
                     => reg = log[i].reg /\ Store = log[i].st

C8_Witness == StoppedInTick /\ Returned /\ obs.cause = "stopped"

\* C9: count = N > 0 lets at most N ticks run, and exactly N when the run
\* ends for no other reason (until reached, emu_stop, an exception); a tick
\* whose hook redirects PC counts; count = 0 never ends the run.
C9_CountBoundsTicks ==
    /\ run.count > 0 => obs.ticks <= run.count
    /\ (obs.runs > 0 /\ at \in {"exiting", "idle"})
          => obs.cause \in {"count", "until", "stopped", "raised"}
    /\ obs.cause = "count"
          => run.count > 0 /\ obs.ticks = run.count /\ insts = run.count
    /\ run.count = 0 => obs.cause # "count"

C9_Witness ==
    /\ Returned /\ obs.cause = "count" /\ run.count = 2 /\ obs.ticks = 2
    /\ \E i \in HookRets : log[i].act = "jump" /\ log[i].a # tk.pc

\* ---------------------------------------------- properties of the memory
\* readByte(address), ..., readByte(address + size - 1) in order.
ByteByByte(address, size) ==
    [k \in 1..size |-> Memory_readByte(Store, address + k - 1).val]

\* C2: for every mapping configuration and every range inside the memory,
\* readBytes(a, n) returns readByte(a), ..., readByte(a + n - 1) in order;
\* with the region 0x2000..0x2003 alone, readBytes(0x1FFE, 8) returns the
\* two RAM bytes, 1, 2, 3, 4 and the two RAM bytes that follow.
C2_BulkReadIsByteReads ==
    (tk.op = "readBytes" /\ tk.address + tk.size <= 65536)
        => /\ tk.exc = "none"
           /\ tk.data = ByteByByte(tk.address, tk.size)

\* C10: the callbacks of the hooks on a byte access are called before the
\* access is made: each sees the value the address held before the
\* operation, the RAM or the device is accessed after the last of them,
\* and a write is in place when the operation returns.
AccessKinds == {"read", "devread", "write", "devwrite"}

C10_HooksBeforeAccess ==
    (tk.op \in {"readByte", "writeByte"} /\ tk.exc = "none")
        => /\ \A i \in Kinds({"rhook", "whook"}) :
                 /\ log[i].seen = obs.before
                 /\ \A j \in Kinds(AccessKinds) : i < j
           /\ Cardinality(Kinds(AccessKinds)) = 1
           /\ tk.op = "writeByte" => obs.after = tk.value

\* A write of a new value to a mapped device with a write hook on it.
C10_Witness ==
    /\ tk.op = "writeByte" /\ obs.before # tk.value
    /\ getMapFor(tk.address) # 0
    /\ \E i \in Kinds({"whook"}) : log[i].seen = obs.before

\* The hook h covers part of the transfer [address, address + size).
Intersects(h, address, size) ==
    Max(address, h.address) < Min(address + size, h.end)

HookKind == IF tk.op = "mem_read" THEN "rhook" ELSE "whook"

CallsOf(h) == {i \in Kinds({HookKind}) : log[i].id = h.id}

\* C11: a bulk transfer made through mem_read / mem_write calls every hook
\* of its kind whose range intersects [a, a + n) exactly once, with the
\* address max(a, begin) and the length min(a + n, end) - max(a, begin),
\* and calls no hook whose range does not intersect it.
C11_BulkHooksPerIntersection ==
    tk.op \in {"mem_read", "mem_write"}
        => /\ tk.exc # "TypeError"
           /\ \A k \in 1..Len(obs.hooks) :
                 IF Intersects(obs.hooks[k], tk.address, tk.size)
                 THEN /\ Cardinality(CallsOf(obs.hooks[k])) = 1
                      /\ \A i \in CallsOf(obs.hooks[k]) :
                            /\ log[i].a = Max(tk.address, obs.hooks[k].address)
                            /\ log[i].seen =
                                  Min(tk.address + tk.size, obs.hooks[k].end)
                                  - Max(tk.address, obs.hooks[k].address)
                 ELSE CallsOf(obs.hooks[k]) = {}

\* The regions that cover the address of the last access, and the one
\* mapped last.
CoveringRegions == {i \in 1..Len(maps) : isInMap(maps[i], tk.address)}
LastMapped == CHOOSE i \in CoveringRegions : \A j \in CoveringRegions : j <= i
ByteAccess == tk.op \in {"readByte", "writeByte"}
ValidAccess ==
    /\ tk.address >= 0 /\ tk.address <= 65535
    /\ tk.op = "writeByte" => (tk.value >= 0 /\ tk.value <= 255)

\* C14: a byte access to an address that several regions cover calls only
\* the device of the region mapped last, with the offset from that region's
\* begin: RAM and the devices of the other regions are neither read nor
\* written.
C14_LastMappedRegionWins ==
    (ByteAccess /\ ValidAccess /\ CoveringRegions # {})
        => /\ \A j \in Kinds(AccessKinds) :
                 /\ log[j].ev \in {"devread", "devwrite"}
                 /\ log[j].id = maps[LastMapped].dev
                 /\ log[j].a = tk.address - maps[LastMapped].base
           /\ Cardinality(Kinds(AccessKinds)) = 1
           /\ memory = obs.st0.memory
           /\ \A d \in DOMAIN devs :
                 d # maps[LastMapped].dev => devs[d] = obs.st0.devs[d]
           /\ tk.op = "writeByte"
                 => DevRead(Store, maps[LastMapped].dev,
                            tk.address - maps[LastMapped].base) = tk.value
           /\ tk.op = "readByte"
                 => /\ devs = obs.st0.devs
                    /\ tk.data = <<DevRead(Store, maps[LastMapped].dev,
                                           tk.address - maps[LastMapped].base)>>

\* A write to an address two regions cover.
C14_Witness ==
    /\ tk.op = "writeByte" /\ ValidAccess
    /\ Cardinality(CoveringRegions) = 2
    /\ maps[1].base # maps[2].base

\* C15: a byte access with an address outside 0..0xFFFF fails with
\* InvalidAddress and a byte write of a value outside 0..255 fails with
\* ValueOutOfRange; the rejected access changes nothing, calls no device and
\* no hook callback.
C15_RejectedAccessHasNoEffect ==
    (ByteAccess /\ ~ValidAccess)
        => /\ tk.exc = IF tk.address < 0 \/ tk.address > 65535
                       THEN "InvalidAddress" ELSE "ValueOutOfRange"
           /\ Store = obs.st0
           /\ log = Empty

\* What writeBytes does with the request of the last readBytes: as many
\* bytes to the same address of the same memory.
WriteOfSameRequest ==
    Memory_writeBytes(Store, tk.address, [k \in 1..tk.size |-> 7])

\* C27: readBytes(a, n) and writeBytes(a, data) terminate for every request
\* inside the address space and every mapping configuration: each turn of
\* their loops consumes at least one byte.
C27_BulkTransfersTerminate ==
    tk.op = "readBytes"
        => tk.exc # "hang" /\ WriteOfSameRequest.exc # "hang"

\* C28: readBytes(a, n) and writeBytes(a, data) fail with InvalidAddress
\* exactly when a < 0 or a + n > 0x10000, so a transfer whose last byte is
\* 0xFFFF succeeds; a failing write has written no byte.
C28_BulkBoundIsEndOfMemory ==
    tk.op = "readBytes"
        => /\ tk.exc = "InvalidAddress"
                 <=> (tk.address < 0 \/ tk.address + tk.size > 65536)
           /\ WriteOfSameRequest.exc = "InvalidAddress"
                 <=> (tk.address < 0 \/ tk.address + tk.size > 65536)
           /\ WriteOfSameRequest.exc = "InvalidAddress"
                 => WriteOfSameRequest.st = Store

\* ------------------------------------------------- properties of MOS.call
\* The last call has ended; it returned after the callee's RTS took PC to
\* the return address.
CallEnded == at = "idle" /\ obs.exit \in {"returned", "raised"}
ReturnedFromRTS ==
    at = "idle" /\ obs.exit = "returned" /\ obs.cause = "until"

\* C16: when MOS.call with preserve_state returns from a callee that ended
\* with RTS on a balanced stack, every register and flag is as it was before
\* the call, and the returned registers are the callee's at its exit: of the
\* routine that loads 65, A = 65 with Z and N clear, X as it was passed, and
\* PC and SP back at the caller's.
C16_CallPreservesRegisters ==
    (ReturnedFromRTS /\ obs.preserve)
        => /\ reg = obs.old_regs
           /\ run.begin = Routine
                 => obs.result =
                       [Patched(obs.old_regs, obs.patch) EXCEPT
                          !.a = 65, !.zero = FALSE, !.negative = FALSE,
                          !.nextPC = ReturnAddress]

\* A call that passed A = 7 to the routine from a caller holding A = 9.
C16_Witness ==
    /\ ReturnedFromRTS /\ obs.preserve
    /\ obs.patch.a = 7 /\ obs.result.a = 65 /\ reg.a = 9
    /\ obs.was_executing

\* C17: the code hook MOS.call adds at the return address is gone when call
\* returns: the code hooks are the ones registered before the call.
C17_SentinelHookIsOneShot ==
    (at = "idle" /\ obs.exit = "returned") => hook_exec = obs.hooks

\* C18: however MOS.call ends (return, emu_stop in the nested run, exception
\* in the nested run), executing is what it was when call was entered.
C18_ExecutingAsAtEntry ==
    CallEnded => executing = obs.was_executing

\* ----------------------------------------------------- properties of main
\* C19: when main has ended, by return, InputEOFError or any other
\* exception, stop() has been called on every interface whose start() was
\* called, and the terminal OSRDCH.start put into raw mode is restored.
C19_StartedInterfacesStopped ==
    at = "done"
        => /\ \A i \in obs.started :
                 \E j \in 1..Len(obs.stops) : obs.stops[j] = i
           /\ obs.terminal = "cooked"

\* ------------------------------------- properties of the filesystem adapter
\* C20: once the interfaces are stopped no guest file is open any more: no
\* handle is left in FS.filehandles and no host file object is open, whether
\* the files were closed by their handles or were still open at the stop.
C20_FilesReleasedAtTeardown ==
    at = "stopped" => (obs.filehandles = Empty /\ obs.files = {})

AllHandles == 1..filehandle_max
Opened == tk.op \in {"open", "save"} /\ tk.exc = "none"

\* C32: a handle returned by open is in 1..255 and is not one of the handles
\* open at that moment, so no two open files share a handle; close of a
\* handle that is not open fails with BadFileHandle and leaves the handle
\* table as it was.
C32_HandlesAreUnique ==
    /\ Opened => /\ tk.handle \in AllHandles
                 /\ tk.handle \notin obs.prev.handles
                 /\ DOMAIN obs.filehandles = obs.prev.handles \cup {tk.handle}
    /\ Cardinality({obs.filehandles[h] : h \in DOMAIN obs.filehandles})
          = Cardinality(DOMAIN obs.filehandles)
    /\ (tk.op = "close" /\ tk.handle \in AllHandles
        /\ tk.handle \notin obs.prev.handles)
           => /\ tk.exc = "BBCBadHandleError"
              /\ DOMAIN obs.filehandles = obs.prev.handles
              /\ obs.next = obs.prev.next

\* An open was given a handle that an earlier close had released, next to
\* a handle still in use.
C32_Witness ==
    /\ Opened /\ tk.handle = filehandle_max - 1
    /\ filehandle_max \in DOMAIN obs.filehandles
    /\ obs.made >= 2

\* C33: _next_filehandle is 0 exactly when no handle of 1..255 is free and
\* otherwise names a free handle, so open fails with NoFileHandles only when
\* all 255 handles are in use.
C33_NextHandleIsFree ==
    /\ obs.next = 0 <=> AllHandles \subseteq DOMAIN obs.filehandles
    /\ obs.next # 0 => (obs.next \in AllHandles
                        /\ obs.next \notin DOMAIN obs.filehandles)
    /\ tk.exc = "BBCNoHandlesError" => obs.prev.handles = AllHandles

\* The low handles ran out, filehandle_max was released by a close, and the
\* open that took it filled the table.
C33_Witness ==
    /\ Opened /\ tk.handle = filehandle_max
    /\ obs.next = 0
    /\ AllHandles \subseteq DOMAIN obs.filehandles

\* C34: an OSFILE operation leaves the set of open handles as it was before
\* the call, and repeated saves never run out of handles.
C34_OsfileKeepsHandles ==
    tk.op = "save"
        => /\ DOMAIN obs.filehandles = obs.prev.handles
           /\ tk.exc # "BBCNoHandlesError"

\* C35: an open that fails with NoFileHandles or FileNotFound leaves the
\* adapter and the host as they were: no host file object open, no file
\* created, filehandles and _next_filehandle unchanged.
C35_FailedOpenChangesNothing ==
    (tk.op = "open" /\ tk.exc \in {"BBCNoHandlesError", "BBCFileNotFoundError"})
        => /\ obs.files = obs.prev.files
           /\ obs.exists = obs.prev.exists
           /\ DOMAIN obs.filehandles = obs.prev.handles
           /\ obs.next = obs.prev.next

\* C36: OSGBPB gives the sequential pointer of the control block (+9) to
\* get_bytes for A = 3 and no pointer for A = 4, as put_bytes gets the
\* pointer for A = 1 and none for A = 2.
C36_GetBytesAtPointer ==
    tk.op = "gbpb"
        => /\ obs.fn = (IF reg.a \in {1, 2} THEN "put_bytes" ELSE "get_bytes")
           /\ reg.a \in {1, 3} => obs.ptr = readLongWord(Store, reg.x + 9)
           /\ reg.a \in {2, 4} => obs.ptr = NoValue

\* C38: OSWORD 0 writes no more bytes to the guest's buffer (the line and
\* its CR) than the maximum line length at offset +2 of the control block.
C38_ReadlineKeepsToMaximum ==
    tk.op = "readline" => obs.written <= obs.maxline

\* C37: OSBYTE &81 leaves C = 1 exactly when no character arrived within
\* the timeout or Escape was pressed: a timeout gives Y = &FF and C = 1, an
\* ordinary character X = its code, Y = 0 and C = 0.
C37_InkeyCarry ==
    (tk.op = "inkey" /\ tk.at # "unhandled")
        => /\ tk.val = None => (tk.exc = "none" /\ reg.y = 255 /\ reg.carry)
           /\ tk.val = Got("bytes", <<27>>) => reg.carry
           /\ (tk.val.kind = "bytes" /\ Len(tk.val.bytes) = 1
                    /\ tk.val.bytes # <<27>>)
                  => (reg.x = tk.val.bytes[1] /\ reg.y = 0 /\ ~reg.carry)

\* C39: while the terminal keeps delivering bytes, a readc whose getch
\* returned None without taking a byte goes on to take a byte, to return a
\* character or to raise InputEOFError: getch never stays at None forever.
C39_ReadcReturns ==
    (tk.op = "readc" /\ tk.at = "polling" /\ tk.taken = 0)
        ~> \/ (tk.op = "readc" /\ tk.at = "returned")
           \/ (tk.op = "readc" /\ tk.exc = "InputEOFError")
           \/ (tk.op = "readc" /\ tk.at = "polling" /\ tk.taken > 0)

\* ------------------------------------------- properties of the OS traps
\* C21: OSARGS.call returns handled exactly when the sub-operation selected
\* by A and Y reported that it handled the request.
C21_OsargsReturnsHandled ==
    (tk.op = "osargs" /\ tk.exc = "none") => tk.returned = obs.handled

\* C22: every osword_readline returns handled with C = 0, the line and its
\* CR at the buffer of the control block and the guest's Y = the length with
\* the CR when a line is entered, and with C = 1 when escape ends the input.
C22_ReadlineSetsCarryAndY ==
    (tk.op = "readline" /\ tk.exc = "none")
        => /\ tk.returned
           /\ obs.typed[1] = "escape" => reg.carry
           /\ obs.typed[1] = "line"
                 => /\ ~reg.carry
                    /\ reg.y = Len(Truncated(obs.typed[2], obs.maxline)) + 1
                    /\ RamRead(Store, obs.buffer + reg.y - 1) = 13
                    /\ \A k \in 1..(reg.y - 1) :
                          RamRead(Store, obs.buffer + k - 1) = obs.typed[2][k]

\* -------------------------------- properties of the single calls
Flags(r) ==
    <<r.carry, r.zero, r.int, r.dec, r.brk, r.overflow, r.negative>>

\* C23: after setPS(v), ps() is v without bit 5 for every v in 0..255, and
\* setPS(ps()) leaves the seven flags as they were.
C23_PackedStatusRoundTrip ==
    /\ tk.op = "setPS"
           => ps(reg) = tk.arg - (IF BitAnd(tk.arg, 32) THEN 32 ELSE 0)
    /\ tk.op = "restorePS" => Flags(reg) = Flags(obs.before)

\* A bank with the break and negative flags set and the carry clear was
\* restored from its own packed byte, 0x90.
C23_Witness ==
    /\ tk.op = "restorePS"
    /\ reg.brk /\ reg.negative /\ ~reg.carry
    /\ tk.arg = 144

\* C24: in both facades reg_write(id, v) stores v & 0xFF in A, X, Y or SP
\* and v & 0xFFFF in PC, reg_read(id) returns what was stored, and an
\* unknown id fails with PbError(PB_ERR_ARG) and changes no register.
C24_RegWriteMasks ==
    tk.op = "reg_write"
        => /\ obs.id \in PB_6502_REG_SP..PB_6502_REG_Y
                 => /\ tk.exc = "none"
                    /\ tk.val = tk.arg % 256
                    /\ reg_read(reg, obs.id) = tk.arg % 256
           /\ obs.id = PB_6502_REG_PC
                 => tk.exc = "none" /\ tk.val = tk.arg % 65536
                    /\ reg.pc = tk.arg % 65536
           /\ obs.id \notin PB_6502_REG_PC..PB_6502_REG_PS
                 => tk.exc = "PbError(PB_ERR_ARG)" /\ reg = obs.before

\* C25: in both Memory classes readWord(a) is readByte(a) | readByte(a+1) << 8
\* for every a in 0..0xFFFE.
C25_ReadWordLittleEndian ==
    (tk.op = "readWord" /\ tk.arg \in 0..65534)
        => /\ tk.exc = "none"
           /\ tk.val = RamRead(Store, tk.arg) + 256 * RamRead(Store, tk.arg + 1)

\* C26: push_byte(v) writes v at 0x100 + SP and decrements SP, wrapping from
\* 0x00 to 0xFF; the pull_byte that follows returns v and leaves SP as it
\* was; pull_word after push_word(w) returns w.
C26_PushPullRoundTrip ==
    /\ tk.op = "push_pull_byte"
           => /\ tk.exc = "none"
              /\ RamRead(Store, StackPage + obs.before.sp) = tk.arg
              /\ obs.pushed = (obs.before.sp - 1) % 256
              /\ tk.val = tk.arg
              /\ reg.sp = obs.before.sp
    /\ tk.op = "push_pull_word"
           => tk.exc = "none" /\ tk.val = tk.arg /\ reg.sp = obs.before.sp

\* C31: when the trap at T reports handled, the instruction at T is not
\* executed in that tick, whatever return address the stack holds, T - 1
\* included.
C31_HandledTrapSkipsInstruction ==
    tk.op = "tick"
        => \A i \in HookRets :
              (log[i].act = "handled" /\ log[i].exc = "none")
                  => Kinds({"handler"}) = {}

\* C29: PC is an unsigned 16-bit value in every reachable state: after a
\* tick whose instruction ends past 0xFFFF, after a handled trap whose
\* stacked return address is 0xFFFF, after reg_write of PC.
C29_PCIsUnsigned16 == reg.pc \in 0..65535

\* C30: SP is an unsigned 8-bit value in every reachable state, the state a
\* failing push_byte or pull_byte leaves behind included.
C30_SPIsUnsigned8 == reg.sp \in 0..255

\* ----------------------------------------------- properties of the hooks
\* The hooks whose callbacks the last byte access called, in order.
CalledIds ==
    [i \in 1..Cardinality(Kinds({"rhook", "whook"})) |->
        log[CHOOSE j \in Kinds({"rhook", "whook"}) :
               Cardinality({k \in Kinds({"rhook", "whook"}) : k <= j}) = i].id]

\* C12: after any sequence of hook_add and hook_del, readByte(a) and
\* writeByte(a, v) call exactly the registered hooks of their kind with
\* begin <= a < end, each once and in the order of registration, whether
\* the single-address map or the list is used.
C12_FastPathCallsCoveringHooks ==
    tk.op \in {"readByte", "writeByte"} => CalledIds = obs.expected

\* A byte read served by the single-address map while two read hooks are
\* registered and after a hook was deleted: one callback is called.
C12_Witness ==
    /\ tk.op = "readByte" /\ Len(obs.expected) = 1
    /\ hook_simple_read # Empty /\ Len(hook_read) = 2
    /\ Len(obs.registered) < nextId - 1

\* C13: hook_add followed by hook_del of the hook it returned restores what
\* is called: for every PC and every byte address the callbacks fired are
\* those fired before the add, in the same order.
C13_AddThenDelRestores == obs.restored => Behaviour = obs.snap

\* A hook added and deleted again while read hooks that the single-address
\* map does not serve and a code hook stay registered.
C13_Witness ==
    /\ obs.restored /\ Len(hook_read) > 0
    /\ hook_simple_read = Empty /\ Len(hook_exec) > 0

=============================================================================
